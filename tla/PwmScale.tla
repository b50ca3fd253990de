------------------------------ MODULE PwmScale ------------------------------
(* The two scales of a fan setpoint: percent in the protocol and in the        *)
(* Gaming-WMI firmware, a PWM byte in hwmon.                                   *)
EXTENDS Naturals

PwmMax == 255
Percent == 0..100

BugRoundsDown(percent) == (percent * PwmMax) \div 100

\* percent_to_pwm: div_ceil.
PercentToPwm(percent) == (percent * PwmMax + 99) \div 100

\* pwm_to_percent: to the nearest percent.
PwmToPercent(pwm) == (pwm * 100 + PwmMax \div 2) \div PwmMax

\* The acer_wmi driver on the other side of hwmon: "converts 0..255 to firmware
\* percent and back", truncating both ways.
DriverStores(pwm) == (pwm * 100) \div PwmMax
DriverShows(percent) == (percent * PwmMax) \div 100

=============================================================================
