--------------------------- MODULE TraceDelivery ---------------------------
(***************************************************************************)
(* What client mode promises for every trace it assembles: it is handed    *)
(* over once, and then either stored once or dropped, for good.  A crash   *)
(* may lose everything not yet stored.  CaptureClient.tla and              *)
(* PyEngineCapture.tla refine this.                                        *)
(***************************************************************************)
EXTENDS TraceAssembly

VARIABLE
  outcome        \* per emitted trace: "open", then "stored" or "dropped"

deliveryVars == <<pending, emitted, outcome>>

DeliveryInit == AssemblyInit /\ outcome = <<>>

Assemble ==
  /\ \/ \E t \in Thoughts, e \in EventTypes, id \in Ids : Gather(t, e, id)
     \/ \E S \in SUBSET Thoughts : Lose(S)
  /\ UNCHANGED outcome

Begin ==
  /\ \E t \in Thoughts, id \in Ids : HandOver(t, id)
  /\ \E o \in {"open", "dropped"} : outcome' = Append(outcome, o)

Store(n) ==
  /\ outcome[n] = "open"
  /\ outcome' = [outcome EXCEPT ![n] = "stored"]
  /\ UNCHANGED <<pending, emitted>>

Drop(n) ==
  /\ outcome[n] = "open"
  /\ outcome' = [outcome EXCEPT ![n] = "dropped"]
  /\ UNCHANGED <<pending, emitted>>

Crash ==
  /\ Lose(Thoughts)
  /\ outcome' = [n \in 1..Len(outcome) |->
                   IF outcome[n] = "open" THEN "dropped" ELSE outcome[n]]

DeliveryNext ==
  \/ Assemble
  \/ Begin
  \/ \E n \in 1..Len(outcome) : Store(n) \/ Drop(n)
  \/ Crash

DeliverySpec == DeliveryInit /\ [][DeliveryNext]_deliveryVars
=============================================================================
