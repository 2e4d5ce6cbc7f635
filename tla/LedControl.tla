----------------------------- MODULE LedControl -----------------------------
(***************************************************************************)
(* The four status LEDs of applications/led_control.c: what a call writes  *)
(* to the pins LED1_PIN_NUM .. LED4_PIN_NUM.  The LEDs are active low: the *)
(* comment at led_control.c:51 says that a set bit lights the LED, and the *)
(* branch below it writes PIN_LOW.                                         *)
(***************************************************************************)
EXTENDS Integers

LEDS == {"LED1", "LED2", "LED3", "LED4"}

PIN_LOW  == 0
PIN_HIGH == 1
PinLevels == {PIN_LOW, PIN_HIGH}

(* The bit of cmd that stands for each LED. *)
Bit == [LED1 |-> 1, LED2 |-> 2, LED3 |-> 4, LED4 |-> 8]

(* init_io_port(): all four pins are outputs, driven high. *)
init_io_port == [i \in LEDS |-> PIN_HIGH]

(* control_led(cmd): one pin write per LED, low where the bit is set. *)
control_led(cmd) ==
  [i \in LEDS |-> IF (cmd \div Bit[i]) % 2 = 1 THEN PIN_LOW ELSE PIN_HIGH]

(* What an observer of the board sees. *)
AllLit(led) == \A i \in LEDS : led[i] = PIN_LOW
AllOff(led) == \A i \in LEDS : led[i] = PIN_HIGH
=============================================================================
