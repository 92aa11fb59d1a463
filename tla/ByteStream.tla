----------------------------- MODULE ByteStream -----------------------------
(***************************************************************************)
(* What a net.Conn promises its reader, whatever carries the bytes: Reads  *)
(* return the bytes that were given, in order, none twice and none left    *)
(* out, and the end of the stream only when there is nothing left.  A Read *)
(* that fails or times out takes nothing.                                  *)
(***************************************************************************)
EXTENDS Naturals, Sequences

VARIABLES
    given,   \* how many bytes were given; they are numbered from 1
    got,     \* the bytes that Reads returned
    ended    \* a Read returned the end of the stream

streamVars == <<given, got, ended>>

StreamInit == given \in Nat /\ got = <<>> /\ ended = FALSE

Give ==
    /\ given' \in Nat
    /\ given' > given
    /\ UNCHANGED <<got, ended>>

\* A Read returns the next bytes.
Take ==
    /\ Len(got') > Len(got)
    /\ Len(got') <= given
    /\ got' = got \o [i \in 1 .. Len(got') - Len(got) |-> Len(got) + i]
    /\ UNCHANGED <<given, ended>>

End ==
    /\ Len(got) = given
    /\ ended' = TRUE
    /\ UNCHANGED <<given, got>>

StreamNext == Give \/ Take \/ End

StreamSpec == StreamInit /\ [][StreamNext]_streamVars

=============================================================================
