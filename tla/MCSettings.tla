----------------------------- MODULE MCSettings -----------------------------
(***************************************************************************)
(* Settings for TLC.  The texts of all SSIDs and hosts are equally long,   *)
(* those of passwords and ports are not: a setting saved anew is written   *)
(* in place in the first case and makes a copy of the file in the second.  *)
(***************************************************************************)
EXTENDS Settings, TLC

MCWidth == [k \in Keys |-> [v \in Values |-> IF k \in {"ssid", "host"} THEN 5 ELSE v]]

\* A card on which a save of credentials ended after the SSID and the relay
\* address was saved after it: the next password goes between two sections.
MCEarlier == { <<Sec("data"), Key("ssid", 1), Sec("relay"), Key("host", 1), Key("port", 1)>> }

\* A new card.
MCNewCard == { <<>> }
=============================================================================
