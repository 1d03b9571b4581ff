----------------------------- MODULE MCDelivery -----------------------------
(* Small instances of Delivery for TLC: two rows, which one SaveAlert queues *)
(* when both channels are enabled and two when one is, and two retries.     *)
EXTENDS Delivery

MCChannels == {"native", "command"}
NativeOrBoth == {<<"native">>, <<"native", "command">>}
NativeOnly == {<<"native">>}
TwoRetries == <<1, 2>>
Both == {<<"native", "command">>}
OneRetry == <<1>>
CommandOnly == {"command"}
=============================================================================
