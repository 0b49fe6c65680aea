---------------------------- MODULE StringSplitter ----------------------------
(***************************************************************************)
(* StringSplitter of src/strExtras.h: the forward scanner that cuts the    *)
(* output of every child, every list on the command line and the PATH into *)
(* pieces.  Positions are offsets into the text, as the pointers of the    *)
(* code are: p is P_ - Input_, last is Last_ - Input_.                     *)
(***************************************************************************)
EXTENDS Integers, Sequences

CONSTANT Chars   \* what texts are made of

VARIABLES
  text,        \* [Input_, End_)
  delimiters,  \* the characters of Delimiters_
  p, last,     \* P_ and Last_
  endReached,  \* EndReached_
  phase,       \* "ready": between calls, "scan": in the loop of next,
               \* "token": next returned true, "over": it returned false
  tokens       \* history: the pieces <<last, p>> that get has returned

splitVars == <<text, delimiters, p, last, endReached, phase, tokens>>

isDelimiter(c) == c \in delimiters

(* The constructor.                                                        *)
Split(t, ds) ==
  /\ text' = t /\ delimiters' = ds
  /\ p' = 0 /\ last' = 0
  /\ endReached' = FALSE
  /\ phase' = "ready" /\ tokens' = <<>>

(* next() is called again: it steps over the delimiter it stopped at,      *)
(* unless it is the first call.                                            *)
Advance ==
  /\ phase = "ready" /\ ~endReached
  /\ p' = IF p # 0 THEN p + 1 ELSE p
  /\ last' = IF p # 0 THEN p + 1 ELSE last
  /\ phase' = "scan"
  /\ UNCHANGED <<text, delimiters, endReached, tokens>>

NoMore ==
  /\ phase = "ready" /\ endReached
  /\ phase' = "over"
  /\ UNCHANGED <<text, delimiters, p, last, endReached, tokens>>

(* The loop of next: a delimiter ends a piece or is skipped.               *)
Scan ==
  /\ phase = "scan" /\ p # Len(text)
  /\ \/ /\ isDelimiter(text[p + 1]) /\ p # last
        /\ phase' = "token" /\ UNCHANGED <<p, last>>
     \/ /\ isDelimiter(text[p + 1]) /\ p = last
        /\ last' = p + 1 /\ p' = p + 1 /\ UNCHANGED phase
     \/ /\ ~isDelimiter(text[p + 1])
        /\ p' = p + 1 /\ UNCHANGED <<last, phase>>
  /\ UNCHANGED <<text, delimiters, endReached, tokens>>

(* Mutated form of ScanEnds: what follows the last delimiter is dropped.   *)
ScanEndsEarly ==
  /\ phase = "scan" /\ p = Len(text)
  /\ endReached' = TRUE
  /\ phase' = "over"
  /\ UNCHANGED <<text, delimiters, p, last, tokens>>

ScanEnds ==
  /\ phase = "scan" /\ p = Len(text)
  /\ endReached' = TRUE
  /\ phase' = IF last # p THEN "token" ELSE "over"
  /\ UNCHANGED <<text, delimiters, p, last, tokens>>

(* get(), called once for each true of next().                             *)
Piece(t) == SubSeq(text, t[1] + 1, t[2])
Get ==
  /\ phase = "token"
  /\ tokens' = Append(tokens, <<last, p>>)
  /\ phase' = "ready"
  /\ UNCHANGED <<text, delimiters, p, last, endReached>>

(* next(), up to its return.                                               *)
SplitStep == Advance \/ NoMore \/ Scan \/ ScanEnds

-----------------------------------------------------------------------------
(* The component on its own: any text, cut at any set of characters.       *)
SplitInit ==
  /\ text \in Seq(Chars)
  /\ delimiters \in SUBSET Chars
  /\ p = 0 /\ last = 0
  /\ endReached = FALSE
  /\ phase = "ready" /\ tokens = <<>>

Renewed == \E t \in Seq(Chars), ds \in SUBSET Chars : Split(t, ds)
SplitNext == SplitStep \/ Get \/ Renewed
SplitSpec == SplitInit /\ [][SplitNext]_splitVars

-----------------------------------------------------------------------------
(* A piece of a text: longest run without a delimiter, not empty.          *)
PieceOf(t, ds, b, e) ==
  /\ b \in 0..Len(t) /\ e \in 0..Len(t) /\ b < e
  /\ \A i \in (b + 1)..e : t[i] \notin ds
  /\ b = 0 \/ t[b] \in ds
  /\ e = Len(t) \/ t[e + 1] \in ds
IsPiece(b, e) == PieceOf(text, delimiters, b, e)

(* The pointers never leave the text, what get returns are the pieces of   *)
(* the text in their order, and when next says there are no more, none has *)
(* been left out (StringSplitter::next, strExtras.cpp:15).                 *)
SplitsExactly ==
  /\ 0 <= last /\ last <= p /\ p <= Len(text)
  /\ phase = "token" => IsPiece(last, p)
  /\ \A i \in 1..Len(tokens) : IsPiece(tokens[i][1], tokens[i][2])
  /\ \A i, j \in 1..Len(tokens) : i < j => tokens[i][2] < tokens[j][1]
  /\ phase = "over" =>
       \A b, e \in 0..Len(text) :
          IsPiece(b, e) => \E i \in 1..Len(tokens) : tokens[i] = <<b, e>>
=============================================================================
