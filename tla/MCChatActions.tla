---------------------------- MODULE MCChatActions ----------------------------
(* Two proposals, a and b, in one reply; four requests about them.         *)
EXTENDS ChatActions, TLC

CONSTANTS a, b, confirm1, confirm2, cancel1, other

MCActions == {a, b}
MCRequests == {confirm1, confirm2, cancel1, other}

\* Two confirmations and a cancellation of a, and a cancellation of b.
MCOpOf == confirm1 :> "confirm" @@ confirm2 :> "confirm"
          @@ cancel1 :> "cancel" @@ other :> "cancel"

MCActionOf == confirm1 :> a @@ confirm2 :> a @@ cancel1 :> a @@ other :> b

SameConfirmation == Permutations({confirm1, confirm2})
=============================================================================
