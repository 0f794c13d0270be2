---------------------------- MODULE SendContract -----------------------------
(***************************************************************************)
(* What a session promises of the messages it was given with               *)
(* Session::send: those it accepts are delivered to the network in that    *)
(* order, each once and none skipped, and after the end of the session at  *)
(* most one more is, whose write had been completed by then.               *)
(***************************************************************************)
EXTENDS Naturals, Sequences

VARIABLES accepted,     \* the messages that were accepted
          delivered,    \* the messages that were written to the end
          ended,        \* the session has ended
          owed          \* it has, and a write that was completed is not counted yet

cvars == <<accepted, delivered, ended, owed>>

CInit ==
    /\ accepted = <<>> /\ delivered = <<>>
    /\ ~ended /\ ~owed

(* One more message, which nobody may deliver any more after the end. *)
Accept ==
    /\ Len(accepted') = Len(accepted) + 1
    /\ SubSeq(accepted', 1, Len(accepted)) = accepted
    /\ UNCHANGED <<delivered, ended, owed>>

Deliver ==
    /\ Len(delivered) < Len(accepted)
    /\ ended => owed
    /\ delivered' = Append(delivered, accepted[Len(delivered) + 1])
    /\ owed' = FALSE
    /\ UNCHANGED <<accepted, ended>>

End ==
    /\ ~ended /\ ended'
    /\ owed' => Len(delivered) < Len(accepted)
    /\ UNCHANGED <<accepted, delivered>>

CNext == Accept \/ Deliver \/ End

CSafety == CInit /\ [][CNext]_cvars
=============================================================================
