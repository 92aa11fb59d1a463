---------------------------- MODULE UpgradeScan -----------------------------
(***************************************************************************)
(* rawHeadHasUpgrade of package httpserver (server_tinygo.go): does the    *)
(* raw head of a request ask for an upgrade?  It feeds the Connection      *)
(* fields to upgradeTokenScanner byte by byte, over continuation lines and *)
(* repeated fields, and must say what IsUpgrade (httpserver.go) says of    *)
(* the fields that net/textproto parses from the same bytes.               *)
(*                                                                         *)
(* A head is one sequence of symbols: the start of a Connection field or   *)
(* of another one, the start of a continuation line, and the bytes of the  *)
(* values.  Letters stand for both of their cases, which both sides fold.  *)
(***************************************************************************)
EXTENDS Naturals, Sequences

CONSTANTS
    Token,      \* upgradeToken
    Letters,    \* what a value holds besides spaces and commas
    WideSpaces, \* those of the letters that strings.TrimSpace trims, too
    MaxSymbols  \* bound: symbols in a head

ASSUME TokenAssumption == Token \in Seq(Letters) /\ Len(Token) > 0
ASSUME SpacesAssumption == WideSpaces \subseteq Letters
ASSUME BoundAssumption == MaxSymbols \in Nat

\* The start of a Connection field, and of any other.
FieldStarts == {"Connection:", "Other:"}

\* The bytes of a value; SP is any of the spaces that feed knows.
ValueBytes == Letters \cup {"SP", ","}

Symbols == FieldStarts \cup {"fold"} \cup ValueBytes

ASSUME LettersAssumption == Letters \cap ({"SP", ",", "fold"} \cup FieldStarts) = {}

VARIABLES
    head,          \* the head up to here
    scan,          \* scan, an upgradeTokenScanner
    inConnection,  \* inConnection
    result         \* what the scan returned: "early" is true, before the end

scanVars == <<head, scan, inConnection, result>>

-----------------------------------------------------------------------------
(* upgradeTokenScanner.                                                    *)

\* reset.
Fresh == [matched |-> 0, valid |-> TRUE, started |-> FALSE, trailing |-> FALSE]

\* space.
Spaced(s) == [s EXCEPT !.trailing = @ \/ s.started]

\* close.
Closes(s) == s.valid /\ s.matched = Len(Token)

\* Mutant of Letter: a space inside a token is not noticed.
LetterAfterSpace(s, b) ==
    LET fits == s.valid /\ s.matched < Len(Token) /\ b = Token[s.matched + 1]
    IN  [s EXCEPT !.started = TRUE,
                  !.valid = fits,
                  !.matched = IF fits THEN @ + 1 ELSE @]

\* feed, of a byte that is neither a space nor a comma.
Letter(s, b) ==
    LET fits == /\ s.valid
                /\ ~s.trailing
                /\ s.matched < Len(Token)
                /\ b = Token[s.matched + 1]
    IN  [s EXCEPT !.started = TRUE,
                  !.valid = fits,
                  !.matched = IF fits THEN @ + 1 ELSE @]

\* feed: the scanner after a byte.
Fed(s, b) ==
    CASE b = "SP" -> Spaced(s)
      [] b = "," -> Fresh
      [] OTHER -> Letter(s, b)

-----------------------------------------------------------------------------
(* rawHeadHasUpgrade.                                                      *)

ScanInit ==
    /\ head = <<>>
    /\ scan = [Fresh EXCEPT !.valid = FALSE]
    /\ inConnection = FALSE
    /\ result = "none"

\* The head goes on with symbol b.
Extended(b) ==
    /\ Len(head) < MaxSymbols
    /\ head = <<>> => b \in FieldStarts
    /\ head' = Append(head, b)

\* A line that starts a field ends the field before it.
FieldStart(b) ==
    /\ b \in FieldStarts
    /\ result = "none"
    /\ Extended(b)
    /\ IF inConnection /\ Closes(scan)
       THEN result' = "early" /\ UNCHANGED <<scan, inConnection>>
       ELSE /\ inConnection' = (b = "Connection:")
            /\ scan' = IF b = "Connection:" THEN Fresh ELSE scan
            /\ UNCHANGED result

\* A continuation line counts as a space.
Fold ==
    /\ result = "none"
    /\ Extended("fold")
    /\ scan' = IF inConnection THEN Spaced(scan) ELSE scan
    /\ UNCHANGED <<inConnection, result>>

\* The next byte of the line; a comma behind the token ends the scan.
Feed(b) ==
    /\ b \in ValueBytes
    /\ result = "none"
    /\ Extended(b)
    /\ result' = IF inConnection /\ b = "," /\ Closes(scan) THEN "early" ELSE "none"
    /\ scan' = IF inConnection THEN Fed(scan, b) ELSE scan
    /\ UNCHANGED inConnection

\* The end of the head.
Finish ==
    /\ result = "none"
    /\ result' = IF inConnection /\ Closes(scan) THEN "yes" ELSE "no"
    /\ UNCHANGED <<head, scan, inConnection>>

\* The rest of the head, which a scan that has returned does not look at.
Rest(b) ==
    /\ result = "early"
    /\ Extended(b)
    /\ UNCHANGED <<scan, inConnection, result>>

ScanNext ==
    \/ \E b \in Symbols : FieldStart(b) \/ Feed(b) \/ Rest(b)
    \/ Fold
    \/ Finish

ScanSpec == ScanInit /\ [][ScanNext]_scanVars

-----------------------------------------------------------------------------
(* The reference: IsUpgrade on the parsed fields.  net/textproto trims the *)
(* lines of a field and joins them with one space, and commaListHasToken   *)
(* trims and compares the elements, so spaces and folds only separate.     *)

Spaces == {"SP", "fold"} \cup WideSpaces

\* strings.TrimSpace(e) is the token.
TrimsToToken(e) ==
    \E n \in 0 .. Len(e) :
        /\ n + Len(Token) <= Len(e)
        /\ SubSeq(e, n + 1, n + Len(Token)) = Token
        /\ \A i \in DOMAIN e : i \in n + 1 .. n + Len(Token) \/ e[i] \in Spaces

\* Position i of h is in a Connection field.
InConnection(h, i) ==
    \E k \in 1 .. i : h[k] = "Connection:" /\ \A m \in k + 1 .. i : h[m] # "Other:"

\* An element of a Connection field's list starts behind i, ends before j, and
\* is the token.
IsUpgrade(h) ==
    LET ends == FieldStarts \cup {","}
    IN  \E i \in DOMAIN h, j \in 2 .. Len(h) + 1 :
            /\ i < j
            /\ h[i] \in ends
            /\ InConnection(h, i)
            /\ j \in DOMAIN h => h[j] \in ends
            /\ \A m \in i + 1 .. j - 1 : h[m] \notin ends
            /\ TrimsToToken(SubSeq(h, i + 1, j - 1))

-----------------------------------------------------------------------------
(* Properties.                                                             *)

\* "Matching what IsUpgrade would say about the parsed request": the scan, in
\* one pass and without the rest of the head once it has said yes, gives the
\* answer of the reference on the whole head.
MatchesIsUpgrade ==
    /\ result \in {"early", "yes"} => IsUpgrade(head)
    /\ result = "no" => ~IsUpgrade(head)

=============================================================================
