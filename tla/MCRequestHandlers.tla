-------------------------- MODULE MCRequestHandlers --------------------------
(***************************************************************************)
(* Small instances of RequestHandlers for TLC: two requests with the same  *)
(* key and one with another, for the owner's operations and the settings;  *)
(* one plugin token delivered twice, and another; one conversation.        *)
(***************************************************************************)
EXTENDS RequestHandlers, TLC

CONSTANTS r1, r2, r3, k1, k2

MCKeyOf == r1 :> k1 @@ r2 :> k1 @@ r3 :> k2

\* Of a source the other request is its deletion.
MCSettingsKeyOf == ("update" :> "k1") @@ ("repeated" :> "k1") @@ ("other" :> "k2")

MCSettingsValueOf == ("update" :> "new") @@ ("repeated" :> "new") @@ ("other" :> "off")

\* Both exports are asked for with one key.
MCUpkeepKeyOf == [e \in {"e1", "e2"} |-> "k"]

MCRuntimeTokenOf == ("d1" :> "t1") @@ ("d2" :> "t1") @@ ("d3" :> "t2")

\* One conversation, created twice, read, deleted; its memory is written twice under one
\* key and deleted in between.
MCRegistryOf == [r \in {"p1", "p2", "g", "d", "m1", "m2", "m3"} |-> "c"]

MCRegistryKeyOf == ("m1" :> "k1") @@ ("m2" :> "k1") @@ ("m3" :> "k2")

MCRegistryValueOf == ("m1" :> "v") @@ ("m2" :> "v") @@ ("m3" :> None)

=============================================================================
