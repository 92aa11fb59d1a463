------------------------------ MODULE MCHelpers ------------------------------
(***************************************************************************)
(* Model checking the routines that clients and servers lean on: the name  *)
(* resolver of netdev, the request head reader and the upgrade scanner of  *)
(* httpserver, and the codecs simdbase64 and simdhex.  They share no state *)
(* and a behaviour runs one of them.                                       *)
(***************************************************************************)
EXTENDS Resolver, HeadReader, UpgradeScan, Base64, VectorLanes, TLC

VARIABLE routine    \* the one that runs

allVars == <<routine, resVars, readVars, scanVars, b64Vars, byte>>

\* The bytes of the terminator of HTTP, and one that is not in it.
MCHeadBytes == {"CR", "LF", "x"}
MCTerminator == <<"CR", "LF", "CR", "LF">>

\* A token of three letters, two of them the same, so that a partial match can
\* be restarted at the wrong place.
MCToken == <<"u", "u", "p">>

\* Inputs of simdbase64 in lines of some digits, 0 for no newlines, starting
\* somewhere in a line: line ends are LF (gap 1) or CR LF (gap 2), and a bad
\* character or one or two of padding stand at a mark.
MCTexts ==
    [len : {63, 92, 256, 258, 340}, line : {0, 18, 64, 76}, gap : 1 .. 2, shift : {0, 50, 76},
     at : {5, 254, 338, 400}, mark : {"bad", "pad", "pads"}, padded : BOOLEAN]

Marked(t, i) == i = t.at \/ (t.mark = "pads" /\ i = t.at + 1)

MCClassOf(t, i) ==
    LET p == t.line + t.gap
        o == (i + t.shift) % p
    IN  IF Marked(t, i) THEN IF t.mark = "bad" \/ ~t.padded THEN "bad" ELSE "pad"
        ELSE IF t.line = 0 \/ o < t.line THEN "digit"
        ELSE IF o = p - 1 THEN "LF"
        ELSE "CR"

\* The inputs of routines that do not run.
NoByte == 256
NoText == [len |-> 0, line |-> 0, gap |-> 1, shift |-> 0, at |-> 0, mark |-> "bad",
           padded |-> FALSE]
B64Idle ==
    /\ text = NoText /\ size = 0
    /\ pc = "start" /\ pos = 0 /\ count = 0 /\ reach = 0 /\ failed = Ok

MCInit ==
    /\ ResInit
    /\ ReadInit
    /\ ScanInit
    /\ \/ /\ routine \in {"lookupHost", "readHead", "rawHeadHasUpgrade"}
          /\ B64Idle
          /\ byte = NoByte
       \/ routine = "Decode" /\ B64Init /\ byte = NoByte
       \/ routine = "lanes" /\ B64Idle /\ LanesInit

MCNext ==
    /\ UNCHANGED <<routine, byte>>
    /\ \/ /\ routine = "lookupHost"
          /\ ResNext
          /\ UNCHANGED <<readVars, scanVars, b64Vars>>
       \/ /\ routine = "readHead"
          /\ ReadNext
          /\ UNCHANGED <<resVars, scanVars, b64Vars>>
       \/ /\ routine = "rawHeadHasUpgrade"
          /\ ScanNext
          /\ UNCHANGED <<resVars, readVars, b64Vars>>
       \/ /\ routine = "Decode"
          /\ B64Next
          /\ UNCHANGED <<resVars, readVars, scanVars>>

MCSpec == MCInit /\ [][MCNext]_allVars

\* Goroutines of the resolver and names are interchangeable.
Symmetry == Permutations(Lookups) \cup Permutations(Names)

=============================================================================
