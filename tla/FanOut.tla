------------------------------- MODULE FanOut -------------------------------
(***************************************************************************)
(* What the WebSocket hub promises: one stream of frames, and readers that *)
(* come and go.  A reader sees, from the point at which it joined, every   *)
(* frame of the stream in order and without a gap, until its stream ends;  *)
(* a reader that cannot keep up is cut off and never skips a frame.        *)
(***************************************************************************)
EXTENDS Naturals, Sequences

CONSTANTS Reader, Frame

VARIABLES
    log,      \* the frames of the stream so far
    phase,    \* phase[r]: "out" before joining, "in", "ended"
    from,     \* from[r]: how many frames the stream had when r joined
    got       \* got[r]: what r has received of the stream

fvars == <<log, phase, from, got>>

FInit == /\ log = <<>>
         /\ phase = [r \in Reader |-> "out"]
         /\ from = [r \in Reader |-> 0]
         /\ got = [r \in Reader |-> <<>>]

Publish == /\ \E f \in Frame : log' = Append(log, f)
           /\ UNCHANGED <<phase, from, got>>

Join(r) == /\ phase[r] = "out"
           /\ phase' = [phase EXCEPT ![r] = "in"]
           /\ from' = [from EXCEPT ![r] = Len(log)]
           /\ UNCHANGED <<log, got>>

Deliver(r) == /\ phase[r] = "in"
              /\ from[r] + Len(got[r]) < Len(log)
              /\ got' = [got EXCEPT ![r] = Append(@, log[from[r] + Len(@) + 1])]
              /\ UNCHANGED <<log, phase, from>>

End(r) == /\ phase[r] = "in"
          /\ phase' = [phase EXCEPT ![r] = "ended"]
          /\ UNCHANGED <<log, from, got>>

FNext == \/ Publish
         \/ \E r \in Reader : Join(r) \/ Deliver(r) \/ End(r)

FSpec == FInit /\ [][FNext]_fvars
=============================================================================
