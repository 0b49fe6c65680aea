------------------------------ MODULE MainProofs ------------------------------
(***************************************************************************)
(* StringSplitter and getopt_long are right for every text and every       *)
(* command line; main uses both as they are meant to be used, so that this *)
(* holds in main too, and its variables are what the command line asks     *)
(* for; and what main prints of a package's manifest.                      *)
(***************************************************************************)
EXTENDS Main, FiniteSetTheorems, SequenceTheorems, WellFoundedInduction, TLAPS

(* The splitter, on its own.                                               *)

InText ==
  /\ text \in Seq(Chars)
  /\ p \in Nat /\ last \in Nat /\ last <= p /\ p <= Len(text)
  /\ endReached \in BOOLEAN
  /\ phase \in {"ready", "scan", "token", "over"}
  /\ tokens \in Seq(Nat \X Nat)

(* What lies between the pointers is the beginning of a piece.             *)
Open ==
  /\ \A i \in (last + 1)..p : text[i] \notin delimiters
  /\ last = 0 \/ text[last] \in delimiters

(* Where next has stopped, the piece ends.                                 *)
Stopped ==
  phase = "token" \/ (phase = "ready" /\ p # 0) =>
    /\ last < p
    /\ IF endReached THEN p = Len(text)
                     ELSE p < Len(text) /\ text[p + 1] \in delimiters

Fresh ==
  /\ phase = "ready" /\ p = 0 => last = 0 /\ ~endReached
  /\ phase = "scan" => ~endReached

(* What get has returned lies before what is being looked at.              *)
Bound == IF phase = "ready" THEN p + 1 ELSE last
Pieces ==
  /\ \A i \in 1..Len(tokens) : IsPiece(tokens[i][1], tokens[i][2])
  /\ \A i, j \in 1..Len(tokens) : i < j => tokens[i][2] < tokens[j][1]
  /\ phase # "over" => \A i \in 1..Len(tokens) : tokens[i][2] < Bound

(* Every piece that begins before n has been returned.                     *)
RecordedIn(t, ds, ts, n) ==
  \A b, e \in 0..Len(t) :
    PieceOf(t, ds, b, e) /\ b < n => \E i \in 1..Len(ts) : ts[i] = <<b, e>>
Recorded(n) == RecordedIn(text, delimiters, tokens, n)
Complete ==
  /\ phase \in {"scan", "token"} => Recorded(last)
  /\ phase = "ready" /\ p # 0 => Recorded(p + 1)
  /\ phase = "over" => Recorded(Len(text))

SInv == InText /\ Open /\ Stopped /\ Fresh /\ Pieces /\ Complete

-----------------------------------------------------------------------------
(* At the start of a text nothing has been returned and nothing is missed. *)
LEMMA FreshInv ==
  ASSUME text \in Seq(Chars), p = 0, last = 0, endReached = FALSE,
         phase = "ready", tokens = <<>>
  PROVE  SInv
<1>1. InText
  <2>1. Len(text) \in Nat
    OBVIOUS
  <2>2. tokens \in Seq(Nat \X Nat)
    BY EmptySeq
  <2>3. endReached \in BOOLEAN
    OBVIOUS
  <2>4. last <= p /\ p <= Len(text)
    BY <2>1
  <2> QED BY <2>1, <2>2, <2>3, <2>4 DEF InText
<1>2. Open /\ Stopped /\ Fresh
  BY DEF Open, Stopped, Fresh
<1>3. Pieces
  BY DEF Pieces
<1>4. Complete
  BY DEF Complete
<1> QED BY <1>1, <1>2, <1>3, <1>4 DEF SInv

LEMMA AdvanceInv == SInv /\ Advance => SInv'
<1> SUFFICES ASSUME SInv, Advance PROVE SInv'
  OBVIOUS
<1> USE DEF SInv
<1>1. InText'
  BY DEF InText, Advance, Stopped
<1>2. Open'
  BY DEF InText, Open, Advance, Stopped, Fresh
<1>3. Stopped' /\ Fresh'
  BY DEF Advance, Stopped, Fresh
<1>4. Pieces'
  BY DEF InText, Pieces, Bound, Advance, Fresh, IsPiece, PieceOf
<1>5. Recorded(last')
  <2>1. CASE p = 0
    <3>1. last' = 0
      BY <2>1 DEF Advance, Fresh
    <3> QED BY <3>1 DEF Recorded, RecordedIn
  <2>2. CASE p # 0
    BY <2>2 DEF Complete, Advance
  <2> QED BY <2>1, <2>2
<1>6. Complete'
  BY <1>5 DEF Complete, Advance, Recorded
<1> QED BY <1>1, <1>2, <1>3, <1>4, <1>6

LEMMA NoMoreInv == SInv /\ NoMore => SInv'
<1> SUFFICES ASSUME SInv, NoMore PROVE SInv'
  OBVIOUS
<1> USE DEF SInv
<1>1. p # 0 /\ p = Len(text)
  BY DEF NoMore, Fresh, Stopped
<1>2. InText' /\ Open' /\ Stopped' /\ Fresh'
  BY DEF InText, Open, Stopped, Fresh, NoMore
<1>3. Pieces'
  BY DEF Pieces, NoMore, IsPiece, PieceOf
<1>4. Recorded(Len(text))
  <2>1. Recorded(p + 1)
    BY <1>1 DEF Complete, NoMore
  <2>2. ASSUME NEW b \in 0..Len(text), b < Len(text) PROVE b < p + 1
    BY <1>1, <2>2
  <2> QED BY <2>1, <2>2 DEF Recorded, RecordedIn
<1>5. Complete'
  BY <1>4 DEF Complete, NoMore, Recorded
<1> QED BY <1>2, <1>3, <1>5

LEMMA ScanInv == SInv /\ Scan => SInv'
<1> SUFFICES ASSUME SInv, Scan PROVE SInv'
  OBVIOUS
<1> USE DEF SInv, isDelimiter
<1>1. CASE text[p + 1] \in delimiters /\ p # last
  <2>1. InText' /\ Open' /\ Stopped' /\ Fresh'
    BY <1>1 DEF InText, Open, Stopped, Fresh, Scan
  <2>2. Pieces'
    BY <1>1 DEF Pieces, Bound, Scan, IsPiece, PieceOf
  <2>3. Complete'
    BY <1>1 DEF Complete, Scan, Recorded
  <2> QED BY <2>1, <2>2, <2>3
<1>2. CASE text[p + 1] \in delimiters /\ p = last
  <2>1. InText' /\ Open' /\ Stopped' /\ Fresh'
    BY <1>2 DEF InText, Open, Stopped, Fresh, Scan
  <2>2. Pieces'
    BY <1>2 DEF InText, Pieces, Bound, Scan, IsPiece, PieceOf
  (* No piece begins at the delimiter that is skipped.                     *)
  <2>3. Recorded(last + 1)
    <3> SUFFICES ASSUME NEW b \in 0..Len(text), NEW e \in 0..Len(text),
                        PieceOf(text, delimiters, b, e), b < last + 1
                 PROVE  \E i \in 1..Len(tokens) : tokens[i] = <<b, e>>
      BY DEF Recorded, RecordedIn
    <3>1. text[b + 1] \notin delimiters
      BY DEF PieceOf
    <3>2. b < last
      BY <1>2, <3>1 DEF InText
    <3> QED BY <3>2 DEF Complete, Recorded, RecordedIn, Scan
  <2>4. Complete'
    BY <1>2, <2>3 DEF Complete, Scan, Recorded
  <2> QED BY <2>1, <2>2, <2>4
<1>3. CASE text[p + 1] \notin delimiters
  <2>1. InText' /\ Open' /\ Stopped' /\ Fresh'
    BY <1>3 DEF InText, Open, Stopped, Fresh, Scan
  <2>2. Pieces'
    BY <1>3 DEF Pieces, Bound, Scan, IsPiece, PieceOf
  <2>3. Complete'
    BY <1>3 DEF Complete, Scan, Recorded
  <2> QED BY <2>1, <2>2, <2>3
<1> QED BY <1>1, <1>2, <1>3

LEMMA ScanEndsInv == SInv /\ ScanEnds => SInv'
<1> SUFFICES ASSUME SInv, ScanEnds PROVE SInv'
  OBVIOUS
<1> USE DEF SInv
<1>1. InText' /\ Open' /\ Stopped' /\ Fresh'
  BY DEF InText, Open, Stopped, Fresh, ScanEnds
<1>2. Pieces'
  BY DEF Pieces, Bound, ScanEnds, IsPiece, PieceOf
<1>3. Complete'
  <2>1. Recorded(last)
    BY DEF Complete, ScanEnds
  <2>2. CASE last # p
    BY <2>1, <2>2 DEF Complete, ScanEnds, Recorded
  <2>3. CASE last = p
    <3>1. Recorded(Len(text))
      BY <2>1, <2>3 DEF ScanEnds
    <3> QED BY <2>3, <3>1 DEF Complete, ScanEnds, Recorded
  <2> QED BY <2>2, <2>3
<1> QED BY <1>1, <1>2, <1>3

(* The only piece that begins where the pointer stands is the one that is  *)
(* returned, and none begins within it.                                    *)
LEMMA GetInv == SInv /\ Get => SInv'
<1> SUFFICES ASSUME SInv, Get PROVE SInv'
  OBVIOUS
<1> USE DEF SInv
<1>1. /\ last < p /\ p <= Len(text)
      /\ p = Len(text) \/ text[p + 1] \in delimiters
  BY DEF InText, Stopped, Get
<1>2. IsPiece(last, p)
  BY <1>1 DEF InText, Open, IsPiece, PieceOf
<1>3. /\ Len(tokens') = Len(tokens) + 1
      /\ tokens'[Len(tokens) + 1] = <<last, p>>
      /\ \A i \in 1..Len(tokens) : tokens'[i] = tokens[i]
      /\ Len(tokens) \in Nat
  BY DEF InText, Get
<1>4. InText'
  <2>1. tokens' \in Seq(Nat \X Nat)
    BY DEF InText, Get
  <2> QED BY <2>1 DEF InText, Get
<1>5. Open' /\ Stopped' /\ Fresh'
  BY <1>1 DEF InText, Open, Stopped, Fresh, Get
<1>6. Pieces'
  <2>1. \A i \in 1..Len(tokens') : IsPiece(tokens'[i][1], tokens'[i][2])
    BY <1>2, <1>3 DEF Pieces
  <2>2. \A i \in 1..Len(tokens) : tokens[i][2] < last
    BY DEF Pieces, Bound, Get
  <2>3. \A i, j \in 1..Len(tokens') : i < j => tokens'[i][2] < tokens'[j][1]
    BY <1>3, <2>2 DEF Pieces
  <2>4. \A i \in 1..Len(tokens') : tokens'[i][2] < p + 1
    <3> SUFFICES ASSUME NEW i \in 1..Len(tokens') PROVE tokens'[i][2] < p + 1
      OBVIOUS
    <3>1. CASE i = Len(tokens) + 1
      BY <1>3, <3>1 DEF InText
    <3>2. CASE i # Len(tokens) + 1
      <4>1. i \in 1..Len(tokens)
        BY <1>3, <3>2
      <4>2. tokens[i][2] \in Nat
        BY <4>1 DEF InText
      <4> QED BY <1>1, <1>3, <2>2, <4>1, <4>2 DEF InText
    <3> QED BY <3>1, <3>2
  <2> QED BY <2>1, <2>3, <2>4 DEF Pieces, Bound, Get, IsPiece
<1>7. Complete'
  <2>1. RecordedIn(text, delimiters, tokens', p + 1)
    <3> SUFFICES ASSUME NEW b \in 0..Len(text), NEW e \in 0..Len(text),
                        PieceOf(text, delimiters, b, e), b < p + 1
                 PROVE  \E i \in 1..Len(tokens') : tokens'[i] = <<b, e>>
      BY DEF RecordedIn
    <3>1. CASE b < last
      <4>1. PICK i \in 1..Len(tokens) : tokens[i] = <<b, e>>
        BY <3>1 DEF Complete, Recorded, RecordedIn, Get
      <4> QED BY <1>3, <4>1
    <3>2. CASE b = last
      <4>1. ~(p < e)
        BY <1>1, <3>2 DEF InText, PieceOf
      <4>2. ~(e < p)
        BY <1>1, <3>2 DEF InText, Open, PieceOf
      <4>3. <<b, e>> = <<last, p>>
        BY <3>2, <4>1, <4>2 DEF InText
      <4> QED BY <1>3, <4>3
    <3>3. CASE last < b
      BY <1>1, <3>3 DEF InText, Open, PieceOf
    <3>4. b < last \/ b = last \/ last < b
      BY DEF InText
    <3> QED BY <3>1, <3>2, <3>3, <3>4, Zenon
  <2> QED BY <2>1 DEF Complete, Recorded, Get
<1> QED BY <1>4, <1>5, <1>6, <1>7

LEMMA RenewedInv == Renewed => SInv'
<1> SUFFICES ASSUME NEW t \in Seq(Chars), NEW ds \in SUBSET Chars, Split(t, ds)
             PROVE  SInv'
  BY DEF Renewed
<1>1. /\ text' \in Seq(Chars) /\ p' = 0 /\ last' = 0 /\ endReached' = FALSE
      /\ phase' = "ready" /\ tokens' = <<>>
  BY DEF Split
<1>2. InText'
  <2>1. Len(text') \in Nat
    BY <1>1
  <2>2. tokens' \in Seq(Nat \X Nat)
    BY <1>1, EmptySeq
  <2>3. endReached' \in BOOLEAN
    BY <1>1
  <2>4. last' <= p' /\ p' <= Len(text')
    BY <1>1, <2>1
  <2> QED BY <1>1, <2>1, <2>2, <2>3, <2>4 DEF InText
<1>3. Open' /\ Stopped' /\ Fresh'
  BY <1>1 DEF Open, Stopped, Fresh
<1>4. Pieces' /\ Complete'
  BY <1>1 DEF Pieces, Complete
<1> QED BY <1>2, <1>3, <1>4 DEF SInv

LEMMA StutterInv == SInv /\ UNCHANGED splitVars => SInv'
BY DEF SInv, InText, Open, Stopped, Fresh, Pieces, Bound, Complete, Recorded,
       IsPiece, splitVars

LEMMA NextInv == SInv /\ [SplitNext]_splitVars => SInv'
BY AdvanceInv, NoMoreInv, ScanInv, ScanEndsInv, GetInv, RenewedInv, StutterInv
   DEF SplitNext, SplitStep

-----------------------------------------------------------------------------
LEMMA InvIsExact == SInv => SplitsExactly
<1> SUFFICES ASSUME SInv PROVE SplitsExactly
  OBVIOUS
<1> USE DEF SInv
<1>1. 0 <= last /\ last <= p /\ p <= Len(text)
  BY DEF InText
<1>2. phase = "token" => IsPiece(last, p)
  BY DEF InText, Open, Stopped, IsPiece, PieceOf
<1>3. ASSUME phase = "over", NEW b \in 0..Len(text), NEW e \in 0..Len(text), IsPiece(b, e)
      PROVE  \E i \in 1..Len(tokens) : tokens[i] = <<b, e>>
  <2>1. Recorded(Len(text))
    BY <1>3 DEF Complete
  <2>2. b < Len(text)
    BY <1>3 DEF InText, IsPiece, PieceOf
  <2> QED BY <1>3, <2>1, <2>2 DEF Recorded, RecordedIn, IsPiece
<1> QED BY <1>1, <1>2, <1>3 DEF SplitsExactly, Pieces

(* Every text, cut at every set of delimiters, is cut into exactly its     *)
(* pieces, in their order, and its pointers stay inside it (strExtras.cpp, *)
(* StringSplitter::next).                                                  *)
THEOREM SplitterIsExact == SplitSpec => []SplitsExactly
<1>1. SplitInit => SInv
  BY FreshInv DEF SplitInit
<1>2. SInv /\ [SplitNext]_splitVars => SInv'
  BY NextInv
<1>3. SInv => SplitsExactly
  BY InvIsExact
<1> QED BY <1>1, <1>2, <1>3, PTL DEF SplitSpec

-----------------------------------------------------------------------------
(* The scan of getopt_long and the exchange, on their own.                 *)

GetoptLabels == {"caller", "permute", "exchange", "skip", "dashes", "exchangeLast", "last", "scan"}

InArgv ==
  /\ argv \in Seq(Elements)
  /\ optind \in Nat /\ firstNonopt \in Nat /\ lastNonopt \in Nat
  /\ bottom \in Nat /\ top \in Nat
  /\ at \in GetoptLabels
  /\ 1 <= optind /\ optind <= argc

(* The non-options that have been skipped lie before optind, but for the   *)
(* moments between finding where they begin and where they end.            *)
Skipped == 1 <= firstNonopt /\ firstNonopt <= lastNonopt /\ lastNonopt <= optind
Beginning == 1 <= firstNonopt /\ firstNonopt <= optind
Between ==
  /\ 1 <= firstNonopt /\ firstNonopt <= bottom /\ bottom <= lastNonopt
  /\ lastNonopt <= top /\ top <= optind

Ranges ==
  /\ at = "caller" /\ ret \notin {"end", "?"} => (ordering # None => Skipped)
  /\ at \in {"permute", "dashes", "scan"} => Skipped
  /\ at \in {"skip", "last"} => Beginning /\ lastNonopt <= optind
  /\ at \in {"exchange", "exchangeLast"} => Between

OInv == InArgv /\ Ranges
-----------------------------------------------------------------------------
LEMMA InitRanges == ASSUME NEW args \in Seq(Elements), NEW posix, GetoptInit(args, posix) PROVE OInv
<1>1. argc \in Nat /\ 1 <= argc
  BY DEF GetoptInit, argc
<1> QED BY <1>1 DEF GetoptInit, OInv, InArgv, Ranges, GetoptLabels

LEMMA CallRanges == OInv /\ Call => OInv'
BY DEF OInv, InArgv, Ranges, Skipped, Beginning, Between, GetoptLabels, Call, Order,
       argVars, swapVars, argc

(* A swap of disjoint blocks of argv leaves a sequence of elements.        *)
LEMMA SwapInside ==
  ASSUME argv \in Seq(Elements), NEW i \in Nat, NEW j \in Nat, NEW len \in Nat,
         1 <= i, i + len <= j, j + len <= argc
  PROVE  /\ Swapped(i, j, len) \in Seq(Elements)
         /\ Len(Swapped(i, j, len)) = Len(argv)
<1> DEFINE n == Len(argv)
<1>1. n \in Nat
  OBVIOUS
<1>2. ASSUME NEW k \in 1..n PROVE Swapped(i, j, len)[k] \in Elements
  <2>1. CASE k \in i..(i + len - 1)
    <3>1. k - i + j \in 1..n
      BY <2>1 DEF argc
    <3>2. Swapped(i, j, len)[k] = argv[k - i + j]
      BY <2>1 DEF Swapped
    <3> QED BY <3>1, <3>2
  <2>2. CASE k \notin i..(i + len - 1) /\ k \in j..(j + len - 1)
    <3>1. k - j + i \in 1..n
      BY <2>2 DEF argc
    <3> QED BY <2>2, <3>1 DEF Swapped
  <2>3. CASE k \notin i..(i + len - 1) /\ k \notin j..(j + len - 1)
    BY <2>3 DEF Swapped
  <2> QED BY <2>1, <2>2, <2>3
<1>3. Swapped(i, j, len) \in [1..n -> Elements]
  BY <1>2 DEF Swapped
<1> QED BY <1>1, <1>3

LEMMA SwapRanges == OInv /\ (SwapBottom \/ SwapTop) => OInv'
<1> SUFFICES ASSUME OInv, SwapBottom \/ SwapTop PROVE OInv'
  OBVIOUS
<1> USE DEF OInv
<1>1. Between /\ argc = Len(argv) + 1 /\ Len(argv) \in Nat
  BY DEF InArgv, Ranges, SwapBottom, SwapTop, Exchanging, argc
<1>2. CASE SwapBottom
  <2> DEFINE len == lastNonopt - bottom
  <2>1. len \in Nat /\ top - len \in Nat /\ lastNonopt <= top - len
    BY <1>1, <1>2 DEF InArgv, Between, SwapBottom
  <2>2. 1 <= bottom /\ bottom + len <= top - len /\ top - len + len <= argc
    BY <1>1, <1>2, <2>1 DEF InArgv, Between, SwapBottom
  <2>3. argv' \in Seq(Elements) /\ Len(argv') = Len(argv)
    BY <1>2, <2>1, <2>2, SwapInside DEF InArgv, SwapBottom
  <2> QED BY <1>1, <1>2, <2>1, <2>3
          DEF InArgv, Ranges, Between, SwapBottom, rangeVars, Exchanging, argc
<1>3. CASE SwapTop
  <2> DEFINE len == top - lastNonopt
  <2>1. len \in Nat /\ bottom + len <= lastNonopt
    BY <1>1, <1>3 DEF InArgv, Between, SwapTop
  <2>2. 1 <= bottom /\ bottom + len <= lastNonopt /\ lastNonopt + len <= argc
    BY <1>1, <1>3, <2>1 DEF InArgv, Between, SwapTop
  <2>3. argv' \in Seq(Elements) /\ Len(argv') = Len(argv)
    BY <1>3, <2>1, <2>2, SwapInside DEF InArgv, SwapTop
  <2> QED BY <1>1, <1>3, <2>1, <2>3
          DEF InArgv, Ranges, Between, SwapTop, rangeVars, Exchanging, argc
<1> QED BY <1>2, <1>3

LEMMA ScanRanges ==
  OInv /\ (Permute \/ Exchanged \/ SkipNonOption \/ DashDash \/ TakeRest) => OInv'
<1> SUFFICES ASSUME OInv,
                    Permute \/ Exchanged \/ SkipNonOption \/ DashDash \/ TakeRest
             PROVE  OInv'
  OBVIOUS
<1> USE DEF OInv, InArgv, Ranges, Skipped, Beginning, Between, GetoptLabels, argVars, argc
<1>1. CASE Permute
  BY <1>1 DEF Permute, Exchange, swapVars, resultVars
<1>2. CASE Exchanged
  BY <1>2 DEF Exchanged, Exchanging, resultVars
<1>3. CASE SkipNonOption
  BY <1>3 DEF SkipNonOption, swapVars, resultVars
<1>4. CASE DashDash
  BY <1>4 DEF DashDash, AtDashes, Exchange, swapVars, resultVars
<1>5. CASE TakeRest
  BY <1>5 DEF TakeRest, swapVars, resultVars
<1> QED BY <1>1, <1>2, <1>3, <1>4, <1>5

LEMMA ReturnRanges ==
  OInv /\ (EndOfOptions \/ RefuseOption \/ InlineArgument \/ NextArgument
           \/ PlainOption \/ ShortOption) => OInv'
<1> SUFFICES ASSUME OInv, EndOfOptions \/ RefuseOption \/ InlineArgument \/ NextArgument
                          \/ PlainOption \/ ShortOption
             PROVE  OInv'
  OBVIOUS
<1> USE DEF OInv, InArgv, Ranges, Skipped, GetoptLabels, argVars, swapVars, argc, Return
<1>1. CASE EndOfOptions
  BY <1>1 DEF EndOfOptions
<1>2. CASE RefuseOption
  BY <1>2 DEF RefuseOption, AtLong
<1>3. CASE InlineArgument
  BY <1>3 DEF InlineArgument, AtLong
<1>4. CASE NextArgument
  BY <1>4 DEF NextArgument, AtLong
<1>5. CASE PlainOption
  BY <1>5 DEF PlainOption, AtLong
<1>6. CASE ShortOption
  BY <1>6 DEF ShortOption
<1> QED BY <1>1, <1>2, <1>3, <1>4, <1>5, <1>6

LEMMA SameRanges == OInv /\ UNCHANGED getoptVars => OInv'
BY DEF OInv, InArgv, Ranges, Skipped, Beginning, Between, argc,
       getoptVars, argVars, rangeVars, swapVars, resultVars

LEMMA NextRanges == OInv /\ [Call \/ GetoptStep]_getoptVars => OInv'
BY CallRanges, SwapRanges, ScanRanges, ReturnRanges, SameRanges DEF GetoptStep

(* For every command line: the scan stays inside argv, and exchange swaps  *)
(* nothing but elements that lie before it.                                *)
THEOREM StaysInArgv == GetoptSpec => []IndicesInRange
<1>1. (\E args \in Seq(Elements), posix \in BOOLEAN : GetoptInit(args, posix)) => OInv
  BY InitRanges
<1>2. OInv /\ [Call \/ GetoptStep]_getoptVars => OInv'
  BY NextRanges
<1>3. OInv => IndicesInRange
  BY DEF OInv, InArgv, Ranges, Skipped, Between, IndicesInRange, argc
<1> QED BY <1>1, <1>2, <1>3, PTL DEF GetoptSpec

-----------------------------------------------------------------------------
(* Both in main.                                                           *)

(* getopt_long is only called in the loop over the options.                *)
LEMMA OptionsCallGetopt == Options => [Call \/ GetoptStep]_getoptVars
BY DEF Options, CallGetopt, GetoptRuns, Set, Ignore, SetVerbose, SetPathType,
       AddExtraDirectory, SetMode, SetCompiler, LeaveAtOnce, OptionsDone

LEMMA StartupLeavesGetopt == Startup => UNCHANGED getoptVars
BY DEF Startup, CheckPaths, RunOneLine, SplitRuns, FirstLine, HostDetected,
       MapBuildTypes, LoadPackages, LoadExtra

LEMMA InspectLeavesGetopt == Inspect => UNCHANGED getoptVars
BY DEF Inspect, SelectMode, VersionRead, Locate, RunBuildFile, VariableLine,
       VariablesRead, AddLanguage, LanguagesRead, SearchCompilers

LEMMA RunModeLeavesGetopt == RunMode => UNCHANGED getoptVars
BY DEF RunMode, PrintPrefix, ManifestLine, PrintFile, InstallOne, InstallEnds

(* On every command line main gets through its options without a look      *)
(* outside argv (main.cpp:724, getopt.c).                                  *)
THEOREM MainStaysInArgv == Spec => []IndicesInRange
<1>1. Init => OInv
  BY ScenarioAssumption, InitRanges DEF Init
<1>2. [Next]_vars => [Call \/ GetoptStep]_getoptVars
  BY OptionsCallGetopt, StartupLeavesGetopt, InspectLeavesGetopt, RunModeLeavesGetopt
     DEF Next, vars
<1>3. OInv /\ [Next]_vars => OInv'
  BY <1>2, NextRanges
<1>4. OInv => IndicesInRange
  BY DEF OInv, InArgv, Ranges, Skipped, Between, IndicesInRange, argc
<1> QED BY <1>1, <1>3, <1>4, PTL DEF Spec

-----------------------------------------------------------------------------
(* The texts that main cuts are texts: what children print, and one of the *)
(* variables read from that.                                               *)
TextInv == SInv /\ variables \in Seq(Seq(Chars))

LEMMA ShortSequences ==
  ASSUME NEW S, NEW c \in S, NEW d \in S
  PROVE  <<c>> \in Seq(S) /\ <<c, d>> \in Seq(S)
OBVIOUS

LEMMA AppendAndElement ==
  ASSUME NEW S, NEW seq \in Seq(S)
  PROVE  /\ \A e \in S : Append(seq, e) \in Seq(S)
         /\ \A i \in 1..Len(seq) : seq[i] \in S
OBVIOUS

LEMMA SplitIsRenewed ==
  ASSUME NEW t \in Seq(Chars), NEW c \in Chars, Split(t, {c})
  PROVE  Renewed
BY DEF Renewed

LEMMA ClosedIsRenewed == Closed => Renewed
<1>1. <<>> \in Seq(Chars)
  BY EmptySeq
<1> QED BY <1>1 DEF Closed, Renewed

LEMMA WorldIsText ==
  ASSUME NEW s \in Scenarios
  PROVE  /\ s.world.sysname \in Seq(Chars) \cup {None}
         /\ s.world.machine \in Seq(Chars) \cup {None}
         /\ s.world.metaPrints \in Seq(Chars)
         /\ s.world.defaultVersion \in Seq(Chars)
         /\ s.world.recipePrints \in Seq(Chars)
         /\ s.world.packageType \in Seq(Chars)
         /\ s.world.langs \in Seq(Chars)
<1>1. /\ \A t \in Texts : s.world[t] \in Seq(Chars)
      /\ s.world.sysname \in Seq(Chars) \cup {None}
      /\ s.world.machine \in Seq(Chars) \cup {None}
  BY ScenarioAssumption
<1>2. {"metaPrints", "recipePrints", "defaultVersion", "packageType", "langs"} \subseteq Texts
  BY DEF Texts, Assigned
<1> QED BY <1>1, <1>2

(* The world does not change.                                              *)
WorldKept == \E s \in Scenarios : world = s.world

LEMMA NextKeepsWorld == [Next]_vars => UNCHANGED world
<1>1. Options => UNCHANGED world
  BY DEF Options, CallGetopt, GetoptRuns, Set, Ignore, SetVerbose, SetPathType,
         AddExtraDirectory, SetMode, SetCompiler, LeaveAtOnce, OptionsDone, mainVars
<1>2. Startup => UNCHANGED world
  BY DEF Startup, CheckPaths, RunOneLine, SplitRuns, FirstLine, HostDetected,
         MapBuildTypes, LoadPackages, LoadExtra, mainVars
<1>3. Inspect => UNCHANGED world
  BY DEF Inspect, SelectMode, VersionRead, Locate, RunBuildFile, VariableLine,
         VariablesRead, AddLanguage, LanguagesRead, SearchCompilers
<1>4. RunMode => UNCHANGED world
  BY DEF RunMode, PrintPrefix, ManifestLine, PrintFile, InstallOne, InstallEnds
<1> QED BY <1>1, <1>2, <1>3, <1>4 DEF Next, vars, mainVars

(* A piece is a text, and so is a variable, which lacks its last sign.     *)
LEMMA PieceIsText ==
  SInv => Piece(<<last, p>>) \in Seq(Chars)
<1> SUFFICES ASSUME SInv PROVE SubSeq(text, last + 1, p) \in Seq(Chars)
  BY DEF Piece
<1> QED BY DEF SInv, InText

LEMMA EchoIsText ==
  ASSUME WorldKept, pc \in OneLine, Echo(pc) # None
  PROVE  Echo(pc) \in Seq(Chars)
<1>1. PICK s \in Scenarios : world = s.world
  BY DEF WorldKept
<1>2. CASE pc = "uname -s"
  BY <1>1, <1>2, WorldIsText DEF Echo
<1>3. CASE pc = "uname -m"
  BY <1>1, <1>3, WorldIsText DEF Echo
<1>4. CASE pc = "version"
  <2>1. world.metaPrints \in Seq(Chars) /\ world.defaultVersion \in Seq(Chars)
    BY <1>1, WorldIsText
  <2>2. <<"NL">> \in Seq(Chars)
    BY ScenarioAssumption, ShortSequences
  <2> QED BY <1>4, <2>1, <2>2 DEF Echo
<1> QED BY <1>2, <1>3, <1>4 DEF OneLine

LEMMA BuildEchoIsText == WorldKept => BuildEcho \in Seq(Chars)
<1> SUFFICES ASSUME WorldKept PROVE BuildEcho \in Seq(Chars)
  OBVIOUS
<1>1. PICK s \in Scenarios : world = s.world
  BY DEF WorldKept
<1>2. /\ world.recipePrints \in Seq(Chars) /\ world.packageType \in Seq(Chars)
      /\ world.langs \in Seq(Chars)
  BY <1>1, WorldIsText
<1>3. <<"@", "NL">> \in Seq(Chars)
  BY ScenarioAssumption, ShortSequences
<1> QED BY <1>2, <1>3 DEF BuildEcho

LEMMA OptionsSplit == Options => UNCHANGED <<splitVars, variables>>
BY DEF Options, CallGetopt, GetoptRuns, Set, Ignore, SetVerbose, SetPathType,
       AddExtraDirectory, SetMode, SetCompiler, LeaveAtOnce, OptionsDone, mainVars, local

LEMMA RunModeSplit == RunMode => UNCHANGED <<splitVars, variables>>
BY DEF RunMode, PrintPrefix, ManifestLine, PrintFile, InstallOne, InstallEnds, local

LEMMA StartupSplit ==
  WorldKept /\ Startup => [SplitNext]_splitVars /\ UNCHANGED variables
<1> SUFFICES ASSUME WorldKept, Startup
             PROVE  [SplitNext]_splitVars /\ UNCHANGED variables
  OBVIOUS
<1>1. CASE RunOneLine
  <2>1. UNCHANGED variables
    BY <1>1 DEF RunOneLine, local
  <2>2. CASE Echo(pc) # None /\ Split(Echo(pc), {"NL"})
    <3>1. Echo(pc) \in Seq(Chars)
      BY <1>1, <2>2, EchoIsText DEF RunOneLine
    <3>2. "NL" \in Chars
      BY ScenarioAssumption
    <3> QED BY <2>1, <2>2, <3>1, <3>2, SplitIsRenewed DEF SplitNext
  <2>3. CASE UNCHANGED splitVars
    BY <2>1, <2>3
  <2> QED BY <1>1, <2>2, <2>3 DEF RunOneLine
<1>2. CASE SplitRuns
  BY <1>2 DEF SplitRuns, SplitNext, mainVars, local
<1>3. CASE FirstLine
  BY <1>3 DEF FirstLine, SplitNext
<1>4. CASE HostDetected
  BY <1>4, ClosedIsRenewed DEF HostDetected, SplitNext
<1>5. CASE CheckPaths \/ MapBuildTypes \/ LoadPackages \/ LoadExtra
  BY <1>5 DEF CheckPaths, MapBuildTypes, LoadPackages, LoadExtra, local
<1> QED BY <1>1, <1>2, <1>3, <1>4, <1>5 DEF Startup

LEMMA InspectSplit ==
  TextInv /\ WorldKept /\ Inspect =>
    [SplitNext]_splitVars /\ variables' \in Seq(Seq(Chars))
<1> SUFFICES ASSUME TextInv, WorldKept, Inspect
             PROVE  [SplitNext]_splitVars /\ variables' \in Seq(Seq(Chars))
  OBVIOUS
<1> USE DEF TextInv
<1>1. CASE VersionRead
  BY <1>1, ClosedIsRenewed DEF VersionRead, SplitNext
<1>2. CASE RunBuildFile
  <2>1. CASE Split(BuildEcho, {"NL"})
    <3>1. "NL" \in Chars
      BY ScenarioAssumption
    <3> QED BY <1>2, <2>1, <3>1, BuildEchoIsText, SplitIsRenewed
            DEF RunBuildFile, SplitNext, local
  <2>2. CASE UNCHANGED splitVars
    BY <1>2, <2>2 DEF RunBuildFile, local
  <2> QED BY <1>2, <2>1, <2>2 DEF RunBuildFile
<1>3. CASE VariableLine
  <2> DEFINE v == Piece(<<last, p>>)
  <2>1. v \in Seq(Chars)
    BY PieceIsText
  <2>2. v # <<>>
    <3>1. last < p /\ p <= Len(text) /\ last \in Nat /\ p \in Nat /\ text \in Seq(Chars)
      BY <1>3 DEF VariableLine, Get, SInv, InText, Stopped
    <3>2. Len(v) = p - last
      BY <3>1 DEF Piece
    <3> QED BY <3>1, <3>2
  <2>3. SubSeq(v, 1, Len(v) - 1) \in Seq(Chars)
    <3> HIDE DEF v
    <3> QED BY <2>1, <2>2
  <2>4. variables' \in {variables, Append(variables, SubSeq(v, 1, Len(v) - 1))}
    BY <1>3, Zenon DEF VariableLine
  <2>5. variables' \in Seq(Seq(Chars))
    <3> HIDE DEF v
    <3>1. Append(variables, SubSeq(v, 1, Len(v) - 1)) \in Seq(Seq(Chars))
      BY <2>3, AppendAndElement, Zenon
    <3> QED BY <2>4, <3>1
  <2> QED BY <1>3, <2>5 DEF VariableLine, SplitNext
<1>4. CASE VariablesRead
  <2>1. UNCHANGED variables
    BY <1>4 DEF VariablesRead
  <2>2. CASE Len(variables) = 2 /\ Split(variables[2], {","})
    <3>1. variables[2] \in Seq(Chars)
      <4>1. Len(variables) = 2
        BY <2>2, Zenon
      <4>2. 2 \in 1..2
        OBVIOUS
      <4>3. \A i \in 1..Len(variables) : variables[i] \in Seq(Chars)
        <5>1. variables \in Seq(Seq(Chars))
          OBVIOUS
        <5> QED BY <5>1, AppendAndElement, Zenon
      <4> QED BY <4>1, <4>2, <4>3
    <3>2. "," \in Chars
      BY ScenarioAssumption
    <3> QED BY <2>1, <2>2, <3>1, <3>2, SplitIsRenewed DEF SplitNext
  <2>3. CASE Closed \/ UNCHANGED splitVars
    BY <2>1, <2>3, ClosedIsRenewed DEF SplitNext
  <2>4. \/ Len(variables) = 2 /\ Split(variables[2], {","})
        \/ Closed \/ UNCHANGED splitVars
    BY <1>4 DEF VariablesRead
  <2> QED BY <2>2, <2>3, <2>4
<1>5. CASE AddLanguage
  BY <1>5 DEF AddLanguage, SplitNext
<1>6. CASE LanguagesRead
  BY <1>6, ClosedIsRenewed DEF LanguagesRead, SplitNext, local
<1>7. CASE SelectMode \/ Locate \/ SearchCompilers
  BY <1>7 DEF SelectMode, Locate, SearchCompilers, local
<1> QED BY <1>1, <1>2, <1>3, <1>4, <1>5, <1>6, <1>7 DEF Inspect

LEMMA NextKeepsText ==
  TextInv /\ WorldKept /\ [Next]_vars => (TextInv /\ WorldKept)'
<1> SUFFICES ASSUME TextInv, WorldKept, [Next]_vars PROVE (TextInv /\ WorldKept)'
  OBVIOUS
<1>1. WorldKept'
  BY NextKeepsWorld DEF WorldKept
<1>2. [SplitNext]_splitVars /\ variables' \in Seq(Seq(Chars))
  <2>1. CASE UNCHANGED vars
    BY <2>1 DEF vars, mainVars, local, TextInv
  <2>2. CASE Next
    BY <2>2, OptionsSplit, StartupSplit, InspectSplit, RunModeSplit DEF Next, TextInv
  <2> QED BY <2>1, <2>2
<1>3. SInv'
  BY <1>2, NextInv DEF TextInv
<1> QED BY <1>1, <1>2, <1>3 DEF TextInv

(* Whatever the children of main print and whatever the recipe assigns, it *)
(* is cut into exactly its lines, and the list of languages into exactly   *)
(* its items (main.cpp:104-161, os.cpp:53-140).                            *)
THEOREM MainSplitsExactly == Spec => []SplitsExactly
<1>1. Init => TextInv /\ WorldKept
  <2> SUFFICES ASSUME Init PROVE TextInv /\ WorldKept
    OBVIOUS
  <2>1. text \in Seq(Chars) /\ variables \in Seq(Seq(Chars))
    BY EmptySeq DEF Init
  <2>2. SInv
    BY <2>1, FreshInv DEF Init
  <2>3. WorldKept
    BY DEF Init, WorldKept
  <2> QED BY <2>1, <2>2, <2>3 DEF TextInv
<1>2. TextInv /\ WorldKept /\ [Next]_vars => (TextInv /\ WorldKept)'
  BY NextKeepsText
<1>3. TextInv => SplitsExactly
  BY InvIsExact DEF TextInv
<1> QED BY <1>1, <1>2, <1>3, PTL DEF Spec

-----------------------------------------------------------------------------
(* --search-path --file: of the lines read so far all are well formed, and *)
(* what has been found is the only path among them that ends as asked.     *)
Lines(n) == {world.manifest[i] : i \in 1..n}
Searched ==
  world.manifest # None =>
    /\ \A l \in Lines(toDo - 1) : l.wellFormed
    /\ result = None => \A l \in Lines(toDo - 1) : ~EndsWith(l.path)
    /\ result # None =>
         /\ EndsWith(result)
         /\ \A l \in Lines(toDo - 1) : EndsWith(l.path) <=> l.path = result

Searching ==
  /\ pc # "done" => printed = None
  /\ pc \notin {"SearchPath", "done"} => result = None
  /\ pc = "SearchPath" => toDo \in Nat \ {0} /\ Searched
KnownMode == mode \in Modes \cup {"NoMode"}
SearchInv == WorldKept /\ KnownMode /\ Searching /\ PrintsTheOneFile

LEMMA ModeStaysKnown == KnownMode /\ [Next]_vars => KnownMode'
<1> SUFFICES ASSUME KnownMode, [Next]_vars PROVE mode' = mode \/ mode' \in Modes
  BY DEF KnownMode
<1>1. CASE Options
  BY <1>1 DEF Options, CallGetopt, GetoptRuns, Set, Ignore, SetVerbose, SetPathType,
     AddExtraDirectory, SetMode, SetCompiler, LeaveAtOnce, OptionsDone, Returned, mainVars, local
<1>2. CASE Startup
  BY <1>2 DEF Startup, CheckPaths, RunOneLine, SplitRuns, FirstLine, HostDetected,
     MapBuildTypes, LoadPackages, LoadExtra, mainVars, local
<1>3. CASE Inspect
  BY <1>3 DEF Inspect, SelectMode, VersionRead, Locate, RunBuildFile, VariableLine,
     VariablesRead, AddLanguage, LanguagesRead, SearchCompilers, local
<1>4. CASE RunMode
  BY <1>4 DEF RunMode, PrintPrefix, ManifestLine, PrintFile, InstallOne, InstallEnds, local
<1> QED BY <1>1, <1>2, <1>3, <1>4 DEF Next, vars, mainVars, local

Before == pc \notin {"SearchPath", "done"} /\ pc' # "SearchPath" /\ UNCHANGED <<result, printed>>

LEMMA OptionsBefore == Options => Before
BY DEF Before, Options, CallGetopt, GetoptRuns, Set, Ignore, SetVerbose, SetPathType,
       Goto, Exit, Returned, AddExtraDirectory, SetMode, SetCompiler, LeaveAtOnce,
       OptionsDone, mainVars, local

LEMMA StartupBefore == Startup => Before
BY DEF Before, Startup, CheckPaths, RunOneLine, OneLine, SplitRuns, Splitting, FirstLine,
       HostDetected, MapBuildTypes, LoadPackages, LoadExtra, Goto, Exit, mainVars, local

LEMMA InspectBefore == KnownMode /\ Inspect /\ ~SearchCompilers => Before
<1> SUFFICES ASSUME KnownMode, Inspect, ~SearchCompilers PROVE Before
  OBVIOUS
<1> USE DEF Before, Goto, Exit, local
<1>1. CASE SelectMode
  BY <1>1 DEF SelectMode, KnownMode, Modes
<1>2. CASE VersionRead
  BY <1>2 DEF VersionRead
<1>3. CASE Locate
  <2>1. pc = "locate" /\ UNCHANGED <<result, printed>>
    BY <1>3 DEF Locate
  <2>2. pc' = "done" \/ pc' = "variables"
    BY <1>3, Zenon DEF Locate
  <2> QED BY <2>1, <2>2
<1>4. CASE RunBuildFile \/ VariableLine
  BY <1>4 DEF RunBuildFile, VariableLine
<1>5. CASE VariablesRead
  BY <1>5 DEF VariablesRead
<1>6. CASE AddLanguage \/ LanguagesRead
  BY <1>6 DEF AddLanguage, LanguagesRead
<1> QED BY <1>1, <1>2, <1>3, <1>4, <1>5, <1>6 DEF Inspect

LEMMA BeforeInv == SearchInv /\ Before => Searching' /\ PrintsTheOneFile'
BY DEF SearchInv, Searching, Before, PrintsTheOneFile

LEMMA CompilersInv == SearchInv /\ SearchCompilers => Searching' /\ PrintsTheOneFile'
<1> SUFFICES ASSUME SearchInv, SearchCompilers PROVE Searching' /\ PrintsTheOneFile'
  OBVIOUS
<1>1. result' = None /\ printed' = None
  BY DEF SearchInv, Searching, SearchCompilers
<1>2. ASSUME pc' = "SearchPath" PROVE toDo' = 1
  BY <1>2 DEF SearchCompilers, Goto, Exit
<1>3. ASSUME pc' = "SearchPath" PROVE toDo' \in Nat \ {0} /\ Searched'
  BY <1>1, <1>2, <1>3 DEF Searched, Lines
<1> QED BY <1>1, <1>3 DEF Searching, PrintsTheOneFile

(* A line that is read and not refused joins the others.                   *)
LEMMA LineInv == SearchInv /\ ManifestLine => Searching' /\ PrintsTheOneFile'
<1> SUFFICES ASSUME SearchInv, ManifestLine PROVE Searching' /\ PrintsTheOneFile'
  OBVIOUS
<1>1. /\ printed = None /\ printed' = None
      /\ toDo \in Nat \ {0} /\ Searched
      /\ world' = world /\ settings' = settings
      /\ world.manifest # None /\ toDo <= Len(world.manifest)
  BY DEF SearchInv, Searching, ManifestLine
<1>2. CASE UNCHANGED <<result, toDo>> /\ pc' = "done"
  BY <1>1, <1>2 DEF Searching, PrintsTheOneFile
<1>3. CASE ~(pc' = "done")
  <2> DEFINE l == world.manifest[toDo]
  <2>1. /\ l.wellFormed /\ ~(EndsWith(l.path) /\ result # None)
        /\ result' = IF EndsWith(l.path) THEN l.path ELSE result
        /\ toDo' = toDo + 1
    BY <1>3 DEF ManifestLine, Exit
  <2>2. l.path # None
    <3>1. PICK s \in Scenarios : world = s.world
      BY DEF SearchInv, WorldKept
    <3>2. world.manifest \in Seq([path : Seq(STRING) \ {None}, wellFormed : BOOLEAN])
      BY <1>1, <3>1, ScenarioAssumption
    <3>3. toDo \in 1..Len(world.manifest)
      BY <1>1, <3>2
    <3>4. world.manifest[toDo] \in [path : Seq(STRING) \ {None}, wellFormed : BOOLEAN]
      BY <3>2, <3>3, AppendAndElement, Zenon
    <3> QED BY <3>4
  <2>3. Lines(toDo - 1)' = Lines(toDo - 1) \cup {l}
    <3>1. toDo' - 1 = toDo /\ 1..toDo = (1..(toDo - 1)) \cup {toDo}
      BY <1>1, <2>1
    <3> QED BY <1>1, <3>1 DEF Lines
  <2>4. Searched'
    <3> HIDE DEF l
    <3>1. CASE EndsWith(l.path)
      BY <1>1, <2>1, <2>2, <2>3, <3>1 DEF Searched, EndsWith
    <3>2. CASE ~EndsWith(l.path)
      BY <1>1, <2>1, <2>2, <2>3, <3>2 DEF Searched, EndsWith
    <3> QED BY <3>1, <3>2
  <2>5. toDo' \in Nat \ {0}
    BY <1>1, <2>1
  <2>6. pc' = "SearchPath"
    BY <1>3 DEF ManifestLine, Exit
  <2> QED BY <1>1, <2>4, <2>5, <2>6 DEF Searching, PrintsTheOneFile
<1>4. CASE ~(UNCHANGED <<result, toDo>>)
  <2>1. UNCHANGED pc
    BY <1>4 DEF ManifestLine
  <2> QED BY <1>3, <2>1 DEF ManifestLine
<1> QED BY <1>2, <1>3, <1>4

LEMMA PrintInv ==
  SearchInv /\ (PrintPrefix \/ PrintFile) => Searching' /\ PrintsTheOneFile'
<1> SUFFICES ASSUME SearchInv, PrintPrefix \/ PrintFile
             PROVE  Searching' /\ PrintsTheOneFile'
  OBVIOUS
<1>1. pc = "SearchPath" /\ pc' = "done" /\ UNCHANGED <<world, settings>>
  BY DEF PrintPrefix, PrintFile, Exit
<1>2. printed = None /\ toDo \in Nat \ {0} /\ Searched
  BY <1>1 DEF SearchInv, Searching
<1>3. CASE printed' = printed \/ settings.File = <<>>
  BY <1>1, <1>2, <1>3 DEF Searching, PrintsTheOneFile
<1>4. CASE /\ world.manifest # None /\ toDo > Len(world.manifest) /\ result # None
           /\ printed' = [path |-> result, as |-> settings.SearchPathType]
  <2>1. ASSUME NEW i \in 1..Len(world.manifest)
        PROVE  /\ world.manifest[i].wellFormed
               /\ EndsWith(world.manifest[i].path) <=> world.manifest[i].path = result
    <3>1. i \in 1..(toDo - 1)
      BY <1>2, <1>4
    <3>2. world.manifest[i] \in Lines(toDo - 1)
      BY <3>1 DEF Lines
    <3> QED BY <1>2, <1>4, <3>2 DEF Searched
  <2>2. printed'.path = result
    BY <1>4
  <2> QED BY <1>1, <2>1, <2>2 DEF Searching, PrintsTheOneFile, EndsWith
<1> QED BY <1>3, <1>4 DEF PrintPrefix, PrintFile

LEMMA InstallInv ==
  SearchInv /\ (InstallOne \/ InstallEnds) => Searching' /\ PrintsTheOneFile'
BY DEF SearchInv, Searching, PrintsTheOneFile, InstallOne, InstallEnds, Exit, local

(* Whatever the manifest of the package holds: a path that is printed for  *)
(* --file is that of the one line that ends so, and no line was broken     *)
(* (searchPath).                                                           *)
THEOREM PrintsOnlyOneFile == Spec => []PrintsTheOneFile
<1>1. Init => SearchInv
  BY DEF Init, SearchInv, WorldKept, KnownMode, Searching, PrintsTheOneFile
<1>2. SearchInv /\ [Next]_vars => SearchInv'
  <2> SUFFICES ASSUME SearchInv, [Next]_vars PROVE SearchInv'
    OBVIOUS
  <2>1. WorldKept' /\ KnownMode'
    BY NextKeepsWorld, ModeStaysKnown DEF SearchInv, WorldKept
  <2>2. CASE UNCHANGED vars
    BY <2>1, <2>2 DEF SearchInv, Searching, Searched, Lines, EndsWith, PrintsTheOneFile,
                      vars, mainVars, local
  <2>3. CASE Next
    BY <2>1, <2>3, OptionsBefore, StartupBefore, InspectBefore, BeforeInv, CompilersInv,
       LineInv, PrintInv, InstallInv
       DEF SearchInv, Next, Inspect, RunMode
  <2> QED BY <2>2, <2>3
<1> QED BY <1>1, <1>2, PTL DEF Spec, SearchInv

-----------------------------------------------------------------------------
(* Getopt, what it reads: first what the reading of a line from the left   *)
(* is, then that of the permuted argv.                                     *)

(* What holds where the words end and, with what follows, one word         *)
(* earlier holds from the first word on.                                   *)
LEMMA FromTheEnd ==
  ASSUME NEW n \in Nat, NEW S, n + 1 \in S, n + 2 \in S,
         \A k \in 1..n : k + 1 \in S /\ k + 2 \in S => k \in S
  PROVE  \A k \in 1..(n + 2) : k \in S
<1> DEFINE R == {ss \in Nat \X Nat : ss[1] < ss[2]}
           Bad == {m \in 0..(n + 1) : n + 2 - m \notin S}
<1>1. IsWellFoundedOn(R, Nat)
  BY NatLessThanWellFounded DEF OpToRel
<1>2. Bad \subseteq Nat
  OBVIOUS
<1>3. Bad = {}
  <2> SUFFICES ASSUME Bad # {} PROVE FALSE
    OBVIOUS
  <2>1. PICK m \in Bad : \A y \in Bad : ~(<<y, m>> \in R)
    <3> HIDE DEF R, Bad
    <3> QED BY <1>1, <1>2, WFMin
  <2>2. m \in 0..(n + 1) /\ n + 2 - m \notin S
    OBVIOUS
  <2>3. ASSUME NEW y \in Bad PROVE ~(y < m)
    <3>1. y \in Nat /\ m \in Nat
      OBVIOUS
    <3> QED BY <2>1, <3>1
  <2>4. m # 0 /\ m # 1
    BY <2>2
  <2>5. m - 1 \in 0..(n + 1) /\ m - 2 \in 0..(n + 1) /\ m - 1 < m /\ m - 2 < m
    BY <2>2, <2>4
  <2>6. n + 2 - (m - 1) \in S /\ n + 2 - (m - 2) \in S
    BY <2>3, <2>5
  <2> DEFINE k == n + 2 - m
  <2>7. k \in 1..n /\ k + 1 = n + 2 - (m - 1) /\ k + 2 = n + 2 - (m - 2)
    BY <2>2, <2>4
  <2> QED BY <2>2, <2>6, <2>7
<1>4. ASSUME NEW k \in 1..(n + 2) PROVE k \in S
  <2>1. n + 2 - k \in 0..(n + 1) /\ n + 2 - (n + 2 - k) = k
    OBVIOUS
  <2> DEFINE m == n + 2 - k
  <2>2. m \in 0..(n + 1) /\ n + 2 - m = k
    BY <2>1
  <2> HIDE DEF m
  <2>3. k \notin S => m \in Bad
    BY <2>2
  <2> QED BY <1>3, <2>3
<1> QED BY <1>4

-----------------------------------------------------------------------------
(* Read is what its definition says: for every command line there is such  *)
(* a function.                                                             *)
End == Len(given) + 2
Body(f, i) == IF i > Len(given) THEN StopAt(i) ELSE ReadAt(i, f[i + 1], f[i + 2])
ReadsFrom(f, k) == f = [i \in k..End |-> Body(f, i)]

LEMMA ReadsEarlier ==
  ASSUME Len(given) \in Nat, NEW k \in 1..Len(given), NEW f, ReadsFrom(f, k + 1)
  PROVE  \E g : ReadsFrom(g, k)
<1> DEFINE g == [i \in k..End |-> IF i = k THEN Body(f, k) ELSE f[i]]
<1>1. ASSUME NEW i \in (k + 1)..End PROVE g[i] = f[i] /\ f[i] = Body(f, i)
  <2>1. i \in k..End /\ i # k
    BY DEF End
  <2>2. f[i] = Body(f, i)
    BY DEF ReadsFrom
  <2> QED BY <2>1, <2>2
<1>2. ASSUME NEW i \in k..End PROVE Body(g, i) = Body(f, i)
  <2>1. CASE i > Len(given)
    BY <2>1 DEF Body
  <2>2. CASE ~(i > Len(given))
    <3>1. i + 1 \in (k + 1)..End /\ i + 2 \in (k + 1)..End
      BY <2>2 DEF End
    <3>2. g[i + 1] = f[i + 1] /\ g[i + 2] = f[i + 2]
      BY <1>1, <3>1
    <3> HIDE DEF g
    <3> QED BY <2>2, <3>2 DEF Body
  <2> QED BY <2>1, <2>2
<1>3. ASSUME NEW i \in k..End PROVE g[i] = Body(g, i)
  <2>1. CASE i = k
    BY <1>2, <2>1
  <2>2. CASE i # k
    <3>1. i \in (k + 1)..End
      BY <2>2 DEF End
    <3> QED BY <1>1, <1>2, <3>1
  <2> QED BY <2>1, <2>2
<1>4. g = [i \in k..End |-> g[i]]
  OBVIOUS
<1> HIDE DEF g
<1>5. g = [i \in k..End |-> Body(g, i)]
  BY <1>3, <1>4
<1> QED BY <1>5 DEF ReadsFrom

LEMMA ReadIs ==
  ASSUME Len(given) \in Nat
  PROVE  \A i \in 1..End : Read[i] = Body(Read, i)
<1> DEFINE S == {k \in 1..End : \E f : ReadsFrom(f, k)}
           n == Len(given)
<1>1. n + 1 \in S /\ n + 2 \in S
  <2>1. ASSUME NEW k \in {n + 1, n + 2} PROVE \E f : ReadsFrom(f, k)
    <3> DEFINE f == [i \in k..End |-> StopAt(i)]
    <3>1. \A i \in k..End : Body(f, i) = StopAt(i)
      <4>1. \A i \in k..End : i > Len(given)
        BY DEF End
      <4> QED BY <4>1 DEF Body
    <3>2. f = [i \in k..End |-> Body(f, i)]
      BY <3>1
    <3> HIDE DEF f
    <3> QED BY <3>2 DEF ReadsFrom
  <2> QED BY <2>1 DEF End
<1>2. ASSUME NEW k \in 1..n, k + 1 \in S PROVE k \in S
  <2>1. PICK f : ReadsFrom(f, k + 1)
    BY <1>2
  <2>2. \E g : ReadsFrom(g, k)
    BY <2>1, ReadsEarlier
  <2> QED BY <2>2 DEF End
<1>3. 1 \in S
  <2>1. n \in Nat /\ \A k \in 1..n : k + 1 \in S /\ k + 2 \in S => k \in S
    BY <1>2
  <2>2. \A k \in 1..(n + 2) : k \in S
    <3> HIDE DEF S, n
    <3> QED BY <1>1, <2>1, FromTheEnd
  <2> QED BY <2>2
<1>4. PICK f : f = [i \in 1..End |-> Body(f, i)]
  BY <1>3 DEF ReadsFrom
<1>5. Read = [i \in 1..End |-> Body(Read, i)]
  BY <1>4 DEF Read, Body, End
<1> QED BY <1>5

-----------------------------------------------------------------------------
(* (That a string is in STRING is beyond the provers.)                     *)
Words    == STRING \cup {"-", "--", "=", "end", "?"}
Args     == Seq(Words) \cup {None}
Outs     == Words \X Args
Readings == [results : Seq(Outs), options : Seq(Elements), rest : Seq(Elements)]

LEMMA Singleton == ASSUME NEW S, NEW x \in S PROVE <<x>> \in Seq(S)
OBVIOUS

LEMMA PartIs ==
  ASSUME NEW S, NEW q \in Seq(S), NEW i \in Nat \ {0}, NEW j \in Int, j <= Len(q)
  PROVE  SubSeq(q, i, j) \in Seq(S)
OBVIOUS

LEMMA ItemIs ==
  ASSUME NEW S, NEW q \in Seq(S), NEW i \in 1..Len(q)
  PROVE  q[i] \in S
OBVIOUS

LEMMA JoinIs ==
  ASSUME NEW S, NEW s \in Seq(S), NEW t \in Seq(S)
  PROVE  s \o t \in Seq(S)
OBVIOUS

LEMMA OutIs == ASSUME NEW v \in Words, NEW a \in Args PROVE <<<<v, a>>>> \in Seq(Outs)
<1>1. <<v, a>> \in Outs
  BY DEF Outs
<1> QED BY <1>1, Singleton

LEMMA StopIs ==
  ASSUME given \in Seq(Elements), NEW i \in Nat \ {0}
  PROVE  StopAt(i) \in Readings
<1>1. SubSeq(given, i, Len(given)) \in Seq(Elements)
  BY PartIs
<1>2. <<<<"end", None>>>> \in Seq(Outs)
  <2>1. "end" \in Words /\ None \in Args /\ 1 \in Nat /\ 2 \in Nat
    BY DEF Args, Words
  <2> QED BY <2>1, OutIs
<1>3. <<>> \in Seq(Elements)
  OBVIOUS
<1> QED BY <1>1, <1>2, <1>3 DEF StopAt, Readings

LEMMA RefusalIs == Refusal \in Readings
<1>2. <<<<"?", None>>>> \in Seq(Outs)
  <2>1. "?" \in Words /\ None \in Args /\ 1 \in Nat /\ 2 \in Nat
    BY DEF Args, Words
  <2> QED BY <2>1, OutIs
<1>3. <<>> \in Seq(Elements)
  OBVIOUS
<1> QED BY <1>2, <1>3 DEF Refusal, Readings

LEMMA WordsAre == ASSUME NEW q \in Seq(STRING) PROVE q \in Seq(Words)
<1>1. STRING \subseteq Words
  BY DEF Words
<1> QED BY <1>1, SeqMonotonic

LEMMA StrIs == ASSUME NEW e \in Elements PROVE Str(e) \in Seq(Words)
<1>1. /\ e.kind \in {"word", "dashes", "short", "long"} /\ e.name \in Seq(Words)
      /\ e.eq \in Seq(Words) \cup {None}
  BY WordsAre DEF Elements
<1>2. "-" \in Words /\ "--" \in Words /\ "=" \in Words
  BY DEF Words
<1>3. <<"-">> \in Seq(Words) /\ <<"--">> \in Seq(Words) /\ <<"=">> \in Seq(Words)
      /\ <<>> \in Seq(Words)
  BY <1>2, Singleton, EmptySeq
<1>4. <<"-">> \o e.name \in Seq(Words) /\ <<"--">> \o e.name \in Seq(Words)
  BY <1>1, <1>3, JoinIs
<1>5. (IF e.eq = None THEN <<>> ELSE <<"=">> \o e.eq) \in Seq(Words)
  BY <1>1, <1>3, JoinIs
<1>6. <<"--">> \o e.name \o (IF e.eq = None THEN <<>> ELSE <<"=">> \o e.eq) \in Seq(Words)
  BY <1>4, <1>5, JoinIs
<1> QED BY <1>1, <1>3, <1>4, <1>6 DEF Str

LEMMA OptionIs ==
  ASSUME given \in Seq(Elements), NEW i \in Nat \ {0}, NEW k \in Nat, i + k - 1 <= Len(given),
         NEW val \in Words, NEW arg \in Args, NEW later \in Readings
  PROVE  OptionAt(i, k, val, arg, later) \in Readings
<1>1. <<<<val, arg>>>> \in Seq(Outs)
  BY OutIs
<1>2. SubSeq(given, i, i + k - 1) \in Seq(Elements)
  BY PartIs
<1>3. later.results \in Seq(Outs) /\ later.options \in Seq(Elements) /\ later.rest \in Seq(Elements)
  BY DEF Readings
<1>4. <<<<val, arg>>>> \o later.results \in Seq(Outs)
  BY <1>1, <1>3, JoinIs
<1>5. SubSeq(given, i, i + k - 1) \o later.options \in Seq(Elements)
  BY <1>2, <1>3, JoinIs
<1> QED BY <1>3, <1>4, <1>5 DEF OptionAt, Readings

LEMMA MeantIs ==
  ASSUME NEW name, NEW o \in Meant(name)
  PROVE  o \in 1..Len(LongOpts)
BY DEF Meant

LEMMA OptIs ==
  ASSUME NEW o \in 1..Len(LongOpts)
  PROVE  /\ LongOpts[o].name \in Seq(STRING) /\ LongOpts[o].hasArg \in BOOLEAN
         /\ LongOpts[o].val \in Words /\ LongOpts[o] # None
         /\ LongOpts[o].val \notin {"end", "?"}
<1>1. LongOpts[o] \in [name : Seq(STRING), hasArg : BOOLEAN, val : STRING]
  BY TableAssumption, ItemIs
<1> QED BY <1>1, TableAssumption DEF Words

LEMMA LongIs ==
  ASSUME given \in Seq(Elements), NEW i \in 1..Len(given), NEW next \in Readings,
         NEW afterNext \in Readings
  PROVE  LongAt(i, next, afterNext) \in Readings
<1> DEFINE e == given[i]
           o == LongOpts[CHOOSE o \in Meant(e.name) : TRUE]
<1>1. e \in Elements /\ e.eq \in Args
  <2>1. e \in Elements
    BY ItemIs
  <2> QED BY <2>1, WordsAre DEF Elements, Args
<1>2. CASE ~\E m \in Meant(e.name) : Meant(e.name) = {m}
  BY <1>2, RefusalIs DEF LongAt
<1>3. CASE \E m \in Meant(e.name) : Meant(e.name) = {m}
  <2>1. (CHOOSE k \in Meant(e.name) : TRUE) \in Meant(e.name)
    BY <1>3
  <2>2. o.hasArg \in BOOLEAN /\ o.val \in Words
    BY <2>1, MeantIs, OptIs
  <2>3. /\ i \in Nat \ {0} /\ Len(given) \in Nat /\ i <= Len(given)
        /\ None \in Args /\ 1 \in Nat /\ 2 \in Nat
    BY DEF Args
  <2>4. i + 1 - 1 <= Len(given) /\ (i < Len(given) => i + 2 - 1 <= Len(given))
    BY <2>3
  <2>5. i < Len(given) => Str(given[i + 1]) \in Args
    <3>1. i < Len(given) => i + 1 \in 1..Len(given)
      BY <2>3
    <3> QED BY <3>1, ItemIs, StrIs DEF Args
  <2>6. LongAt(i, next, afterNext) =
          CASE e.eq # None /\ o.hasArg -> OptionAt(i, 1, o.val, e.eq, next)
            [] e.eq = None /\ o.hasArg /\ i < Len(given) ->
                 OptionAt(i, 2, o.val, Str(given[i + 1]), afterNext)
            [] e.eq = None /\ ~o.hasArg -> OptionAt(i, 1, o.val, None, next)
            [] OTHER -> Refusal
    BY <1>3, Zenon DEF LongAt
  <2> HIDE DEF e, o
  <2>7. CASE e.eq # None /\ o.hasArg
    <3>1. LongAt(i, next, afterNext) = OptionAt(i, 1, o.val, e.eq, next)
      BY <2>6, <2>7
    <3> QED BY <1>1, <2>2, <2>3, <2>4, <3>1, OptionIs
  <2>8. CASE e.eq = None /\ o.hasArg /\ i < Len(given)
    <3>1. LongAt(i, next, afterNext) = OptionAt(i, 2, o.val, Str(given[i + 1]), afterNext)
      BY <2>6, <2>8
    <3> QED BY <2>2, <2>3, <2>4, <2>5, <2>8, <3>1, OptionIs
  <2>9. CASE e.eq = None /\ ~o.hasArg
    <3>1. LongAt(i, next, afterNext) = OptionAt(i, 1, o.val, None, next)
      BY <2>6, <2>9
    <3> QED BY <2>2, <2>3, <2>4, <3>1, OptionIs
  <2>10. CASE ~(e.eq # None /\ o.hasArg) /\ ~(e.eq = None /\ o.hasArg /\ i < Len(given))
              /\ ~(e.eq = None /\ ~o.hasArg)
    <3>1. LongAt(i, next, afterNext) = Refusal
      BY <2>6, <2>10
    <3> QED BY <3>1, RefusalIs
  <2> QED BY <2>7, <2>8, <2>9, <2>10
<1> QED BY <1>2, <1>3

LEMMA ReadAtIs ==
  ASSUME given \in Seq(Elements), NEW i \in 1..Len(given), NEW next \in Readings,
         NEW afterNext \in Readings
  PROVE  ReadAt(i, next, afterNext) \in Readings
<1> DEFINE e == given[i]
<1>1. e \in Elements /\ <<e>> \in Seq(Elements)
  BY ItemIs, Singleton
<1>2. e.kind \in {"word", "dashes", "short", "long"}
  BY <1>1 DEF Elements
<1>3. i \in Nat \ {0} /\ i + 1 \in Nat \ {0}
  OBVIOUS
<1>4. CASE e.kind = "word" /\ posixlyCorrect
  BY <1>3, <1>4, StopIs DEF ReadAt
<1>5. CASE e.kind = "word" /\ ~posixlyCorrect
  <2>1. ReadAt(i, next, afterNext) = [next EXCEPT !.rest = <<e>> \o @]
    BY <1>5 DEF ReadAt
  <2>2. <<e>> \o next.rest \in Seq(Elements)
    BY <1>1, JoinIs DEF Readings
  <2> QED BY <2>1, <2>2 DEF Readings
<1>6. CASE e.kind = "dashes"
  <2>1. ReadAt(i, next, afterNext) = [StopAt(i + 1) EXCEPT !.options = <<e>>]
    BY <1>6 DEF ReadAt
  <2>2. StopAt(i + 1) \in Readings
    BY <1>3, StopIs
  <2> QED BY <1>1, <2>1, <2>2 DEF Readings
<1>7. CASE e.kind = "short"
  BY <1>7, RefusalIs DEF ReadAt
<1>8. CASE e.kind = "long"
  BY <1>8, LongIs DEF ReadAt
<1> QED BY <1>2, <1>4, <1>5, <1>6, <1>7, <1>8

LEMMA ReadTyped ==
  ASSUME given \in Seq(Elements)
  PROVE  \A i \in 1..End : Read[i] \in Readings
<1> DEFINE n == Len(given)
           S == {i \in 1..End : Read[i] \in Readings}
<1>1. n \in Nat
  OBVIOUS
<1>2. ASSUME NEW i \in {n + 1, n + 2} PROVE i \in S
  <2>1. i \in 1..End /\ i > Len(given) /\ i \in Nat \ {0}
    BY <1>1 DEF End
  <2> QED BY <1>1, <2>1, ReadIs, StopIs DEF Body
<1>3. ASSUME NEW i \in 1..n, i + 1 \in S, i + 2 \in S PROVE i \in S
  <2>1. i \in 1..End /\ ~(i > Len(given)) /\ i \in 1..Len(given)
    BY <1>1 DEF End
  <2> QED BY <1>1, <1>3, <2>1, ReadIs, ReadAtIs DEF Body
<1>4. \A i \in 1..(n + 2) : i \in S
  <2> HIDE DEF n, S
  <2> QED BY <1>1, <1>2, <1>3, FromTheEnd
<1> QED BY <1>4 DEF End

LEMMA ReadHere ==
  ASSUME given \in Seq(Elements), NEW i \in 1..Len(given)
  PROVE  /\ Read[i] = ReadAt(i, Read[i + 1], Read[i + 2])
         /\ i \in 1..End /\ i + 1 \in 1..End /\ i + 2 \in 1..End
<1>1. i \in 1..End /\ i + 1 \in 1..End /\ i + 2 \in 1..End /\ ~(i > Len(given))
      /\ Len(given) \in Nat
  BY DEF End
<1> QED BY <1>1, ReadIs DEF Body

LEMMA ReadEnd ==
  ASSUME given \in Seq(Elements)
  PROVE  Read[Len(given) + 1] = StopAt(Len(given) + 1)
<1>1. Len(given) + 1 \in 1..End /\ Len(given) + 1 > Len(given) /\ Len(given) \in Nat
  BY DEF End
<1> QED BY <1>1, ReadIs DEF Body

-----------------------------------------------------------------------------
(* The search of the option table finds the one option that is meant.      *)
LEMMA SimilarIs ==
  ASSUME NEW name \in Seq(STRING)
  PROVE  Meant(name) = IF Exact(name) # {} THEN Exact(name) ELSE Similar(name)
<1>1. SubSeq(name, 1, Len(name)) = name
  BY SubSeqFull
<1>2. Similar(name) = {i \in 1..Len(LongOpts) :
                        /\ Len(name) <= Len(LongOpts[i].name)
                        /\ SubSeq(LongOpts[i].name, 1, Len(name)) = name}
  BY <1>1 DEF Similar, IsPrefix
<1>3. Exact(name) = {i \in 1..Len(LongOpts) : LongOpts[i].name = name}
  <2>1. Len(name) \in Nat
    OBVIOUS
  <2>2. \A i \in 1..Len(LongOpts) : LongOpts[i].name = name => i \in Similar(name)
    BY <1>1, <1>2, <2>1
  <2> QED BY <1>2, <2>2 DEF Exact
<1> QED BY <1>2, <1>3 DEF Meant

LEMMA FoundIsMeant ==
  ASSUME NEW name \in Seq(STRING)
  PROVE  /\ Found(name) # None /\ ~Ambiguous(name) <=>
              \E m \in Meant(name) : Meant(name) = {m}
         /\ (\E m \in Meant(name) : Meant(name) = {m}) =>
              Found(name) = LongOpts[CHOOSE o \in Meant(name) : TRUE]
<1> DEFINE best == Meant(name)
           least == CHOOSE i \in best : \A j \in best : i <= j
<1>1. Found(name) = IF best = {} THEN None ELSE LongOpts[least]
  <2>1. CASE Exact(name) = {}
    <3>1. best = Similar(name)
      BY <2>1, SimilarIs
    <3> QED BY <2>1, <3>1 DEF Found
  <2>2. CASE Exact(name) # {}
    <3>1. best = Exact(name)
      BY <2>2, SimilarIs
    <3> QED BY <2>2, <3>1 DEF Found
  <2> QED BY <2>1, <2>2
<1>2. best \subseteq 1..Len(LongOpts) /\ Len(LongOpts) \in Nat
  BY TableAssumption DEF Meant
<1>3. CASE best = {}
  BY <1>1, <1>3
<1>4. ASSUME NEW m \in best, best = {m}
      PROVE  /\ Found(name) = LongOpts[m] /\ (CHOOSE o \in best : TRUE) = m
             /\ Found(name) # None /\ ~Ambiguous(name)
  <2>1. m \in Nat /\ m <= m
    BY <1>2
  <2>2. least = m
    BY <1>4, <2>1
  <2>3. Found(name) = LongOpts[m] /\ LongOpts[m] # None
    BY <1>1, <1>2, <2>2, OptIs
  <2>4. ~Ambiguous(name)
    BY <1>4, <2>3, SimilarIs DEF Ambiguous
  <2>5. (CHOOSE o \in best : TRUE) = m
    BY <1>4
  <2> QED BY <2>3, <2>4, <2>5
<1>5. ASSUME NEW a \in best, NEW b \in best, a # b
      PROVE  Ambiguous(name)
  <2>1. a \in 1..Len(LongOpts) /\ b \in 1..Len(LongOpts)
    BY <1>2
  <2>2. LongOpts[a].name # LongOpts[b].name /\ LongOpts[a].val # LongOpts[b].val
    BY <1>5, <2>1, TableAssumption
  <2>3. Exact(name) = {}
    BY <2>2, SimilarIs DEF Exact
  <2>4. a \in Similar(name) /\ b \in Similar(name)
    BY <2>3, SimilarIs
  <2>5. LongOpts[a].val # Found(name).val \/ LongOpts[b].val # Found(name).val
    BY <2>2
  <2> QED BY <2>3, <2>4, <2>5 DEF Ambiguous
<1> HIDE DEF least
<1>6. best = {} \/ (\E m \in best : best = {m}) \/ (\E a, b \in best : a # b)
  <2> HIDE DEF best
  <2> QED OBVIOUS
<1> QED BY <1>3, <1>4, <1>5, <1>6

-----------------------------------------------------------------------------
(* The first optind - 1 elements in the order they end in: the options,    *)
(* how many they are, and the words that have been skipped.                *)
Source(b, l, t, k) ==
  IF k < b THEN k
  ELSE IF k < b + (t - l) THEN k - b + l
  ELSE IF k < t THEN k - t + l ELSE k
Moved(q, b, l, t) == [k \in 1..Len(q) |-> q[Source(b, l, t, k)]]

Fst    == IF ordering = None THEN optind ELSE firstNonopt
Lst    == IF ordering = None \/ at \in {"skip", "last"} THEN optind ELSE lastNonopt
Low    == IF Exchanging THEN bottom ELSE Fst
High   == IF Exchanging THEN top ELSE optind
Sorted == Moved(argv, Low, Lst, High)
Taken  == Fst - 1 + (optind - Lst)

OptionsSoFar == SubSeq(Sorted, 1, Taken)
RestSoFar    == SubSeq(Sorted, Taken + 1, optind - 1)

(* What is read from here on.                                              *)
Ahead == IF at \in {"exchangeLast", "last"} THEN StopAt(optind) ELSE Read[optind]

Running == at # "caller" \/ ret \notin {"end", "?"}

OnTheWay ==
  /\ Reading.results = results \o Ahead.results
  /\ Reading.options = OptionsSoFar \o Ahead.options
  /\ Reading.rest = RestSoFar \o Ahead.rest

Unmoved == \A k \in optind..Len(argv) : argv[k] = given[k]
Settled ==
  /\ ordering # None => ordering = Order
  /\ at # "caller" => ordering # None
  /\ at \in {"permute", "exchange", "skip"} => ~posixlyCorrect
  /\ posixlyCorrect /\ ordering # None /\ at \in {"caller", "dashes"} => firstNonopt = lastNonopt
  /\ posixlyCorrect /\ at = "scan" =>
       firstNonopt = lastNonopt \/ (lastNonopt = optind /\ optind = argc)
  /\ ~posixlyCorrect /\ at \in {"dashes", "scan"} => lastNonopt = optind

Known == given \in Seq(Elements) /\ Len(argv) = Len(given) /\ results \in Seq(Outs)
Done ==
  /\ results = Reading.results
  /\ ret = "end" => argv = Reading.options \o Reading.rest /\ optind = Len(Reading.options) + 1

LEMMA SameReading ==
  ASSUME UNCHANGED <<given, posixlyCorrect>>
  PROVE  Read' = Read /\ Reading' = Reading /\ \A i : StopAt(i)' = StopAt(i)
<1>1. \A i : StopAt(i)' = StopAt(i)
  BY DEF StopAt
<1>2. Read' = Read
  BY DEF Read, ReadAt, LongAt, OptionAt, StopAt
<1> QED BY <1>1, <1>2 DEF Reading

LEMMA SourceInside ==
  ASSUME NEW n \in Nat, NEW b \in Nat, NEW l \in Nat, NEW t \in Nat,
         1 <= b, b <= l, l <= t, t <= n + 1, NEW k \in 1..n
  PROVE  /\ Source(b, l, t, k) \in 1..n
         /\ k < t => Source(b, l, t, k) < t
BY DEF Source

Within(q, b, l, t) ==
  {b, l, t} \subseteq Nat /\ 1 <= b /\ b <= l /\ l <= t /\ t <= Len(q) + 1

LEMMA MovedIs ==
  ASSUME NEW q \in Seq(Elements), NEW b, NEW l, NEW t, Within(q, b, l, t)
  PROVE  /\ Moved(q, b, l, t) \in Seq(Elements)
         /\ Len(Moved(q, b, l, t)) = Len(q)
         /\ \A k \in 1..Len(q) : Moved(q, b, l, t)[k] = q[Source(b, l, t, k)]
<1> DEFINE n == Len(q)
<1>1. n \in Nat
  OBVIOUS
<1>2. ASSUME NEW k \in 1..n PROVE q[Source(b, l, t, k)] \in Elements
  <2>1. Source(b, l, t, k) \in 1..n
    BY <1>1, SourceInside DEF Within
  <2> QED BY <2>1, ItemIs
<1>3. Moved(q, b, l, t) \in [1..n -> Elements]
  BY <1>2 DEF Moved
<1> QED BY <1>1, <1>3 DEF Moved

LEMMA NothingMoves ==
  ASSUME NEW q \in Seq(Elements), NEW b \in Nat, NEW l \in Nat, NEW t \in Nat,
         b = l \/ l = t
  PROVE  Moved(q, b, l, t) = q
<1>1. ASSUME NEW k \in 1..Len(q) PROVE Source(b, l, t, k) = k
  <2>1. k \in Int
    OBVIOUS
  <2> QED BY <2>1 DEF Source
<1>2. Moved(q, b, l, t) = [k \in 1..Len(q) |-> q[k]]
  BY <1>1 DEF Moved
<1>3. q = [k \in 1..Len(q) |-> q[k]]
  OBVIOUS
<1> QED BY <1>2, <1>3

(* What a swap of exchange moves still ends where it had to.               *)
SwapSource(i, j, len, k) ==
  IF k \in i..(i + len - 1) THEN k - i + j
  ELSE IF k \in j..(j + len - 1) THEN k - j + i ELSE k

LEMMA SwappedIs ==
  ASSUME argv \in Seq(Elements), NEW i \in Nat, NEW j \in Nat, NEW len \in Nat, i + len <= j
  PROVE  /\ Len(Swapped(i, j, len)) = Len(argv)
         /\ \A k \in 1..Len(argv) : Swapped(i, j, len)[k] = argv[SwapSource(i, j, len, k)]
<1>1. Len(argv) \in Nat
  OBVIOUS
<1>2. ASSUME NEW k \in 1..Len(argv)
      PROVE  Swapped(i, j, len)[k] = argv[SwapSource(i, j, len, k)]
  <2>1. CASE k \in i..(i + len - 1)
    <3>0. k \notin j..(j + len - 1)
      BY <2>1
    <3>1. Swapped(i, j, len)[k] = argv[k - i + j]
      BY <2>1, <3>0 DEF Swapped
    <3> QED BY <2>1, <3>1 DEF SwapSource
  <2>2. CASE k \notin i..(i + len - 1) /\ k \in j..(j + len - 1)
    <3>1. Swapped(i, j, len)[k] = argv[k - j + i]
      BY <2>2 DEF Swapped
    <3> QED BY <2>2, <3>1 DEF SwapSource
  <2>3. CASE k \notin i..(i + len - 1) /\ k \notin j..(j + len - 1)
    <3>1. Swapped(i, j, len)[k] = argv[k]
      BY <2>3 DEF Swapped
    <3> QED BY <2>3, <3>1 DEF SwapSource
  <2> QED BY <2>1, <2>2, <2>3
<1>3. DOMAIN Swapped(i, j, len) = 1..Len(argv)
  BY DEF Swapped
<1>4. Len(Swapped(i, j, len)) = Len(argv)
  BY <1>1, <1>3
<1> QED BY <1>2, <1>4

Fits(i, j, len, b, l, t, b2, t2) ==
  /\ {i, j, len, b, l, t, b2, t2} \subseteq Nat /\ i + len <= j
  /\ 1 <= b /\ b <= l /\ l <= t /\ t <= argc
  /\ 1 <= b2 /\ b2 <= l /\ l <= t2 /\ t2 <= argc
  /\ \A k \in 1..Len(argv) : SwapSource(i, j, len, Source(b2, l, t2, k)) = Source(b, l, t, k)

LEMMA SwapEnds ==
  ASSUME argv \in Seq(Elements), NEW i, NEW j, NEW len, NEW b, NEW l, NEW t, NEW b2, NEW t2,
         Fits(i, j, len, b, l, t, b2, t2)
  PROVE  Moved(Swapped(i, j, len), b2, l, t2) = Moved(argv, b, l, t)
<1> USE DEF Fits
<1>1. Len(argv) \in Nat /\ argc = Len(argv) + 1
  BY DEF argc
<1>2. ASSUME NEW k \in 1..Len(argv)
      PROVE  Swapped(i, j, len)[Source(b2, l, t2, k)] = argv[Source(b, l, t, k)]
  <2>1. Source(b2, l, t2, k) \in 1..Len(argv)
    BY <1>1, SourceInside
  <2>2. \A m \in 1..Len(argv) : Swapped(i, j, len)[m] = argv[SwapSource(i, j, len, m)]
    BY SwappedIs
  <2> QED BY <2>1, <2>2 DEF Fits
<1>3. Len(Swapped(i, j, len)) = Len(argv)
  BY SwappedIs
<1> QED BY <1>2, <1>3 DEF Moved

LEMMA BottomEnds ==
  ASSUME NEW b \in Nat, NEW l \in Nat, NEW t \in Nat, b < l, l < t, t - l > l - b,
         NEW k \in Nat
  PROVE  SwapSource(b, t - (l - b), l - b, Source(b, l, t - (l - b), k)) = Source(b, l, t, k)
BY DEF SwapSource, Source

LEMMA TopEnds ==
  ASSUME NEW b \in Nat, NEW l \in Nat, NEW t \in Nat, b < l, l < t, t - l <= l - b,
         NEW k \in Nat
  PROVE  SwapSource(b, l, t - l, Source(b + (t - l), l, t, k)) = Source(b, l, t, k)
BY DEF SwapSource, Source

LEMMA SwapsKeepSorted ==
  OInv /\ ordering # None /\ (SwapBottom \/ SwapTop) => Sorted' = Sorted
<1> SUFFICES ASSUME OInv, ordering # None, SwapBottom \/ SwapTop PROVE Sorted' = Sorted
  OBVIOUS
<1> DEFINE b == bottom  l == lastNonopt  t == top
<1>1. /\ Exchanging /\ b < l /\ l < t /\ Between /\ argc = Len(argv) + 1
      /\ b \in Nat /\ l \in Nat /\ t \in Nat /\ Len(argv) \in Nat /\ argv \in Seq(Elements)
      /\ optind \in Nat /\ optind <= argc /\ firstNonopt \in Nat
  BY DEF OInv, InArgv, Ranges, SwapBottom, SwapTop, Exchanging, argc
<1>2. 1 <= b /\ t <= argc /\ b <= l /\ l <= t /\ argc \in Nat
  BY <1>1 DEF Between
<1>3. Exchanging' /\ Lst' = l /\ Lst = l
  BY <1>1 DEF SwapBottom, SwapTop, Exchanging, Lst, rangeVars
<1>4. Sorted = Moved(argv, b, l, t) /\ Sorted' = Moved(argv', bottom', l, top')
  BY <1>1, <1>3 DEF Sorted, Low, High
<1>5. CASE SwapBottom
  <2> DEFINE len == l - b  t2 == t - len
  <2>1. t - l > len /\ argv' = Swapped(b, t2, len) /\ bottom' = b /\ top' = t2
    BY <1>5 DEF SwapBottom
  <2>2. len \in Nat /\ t2 \in Nat /\ l <= t2 /\ t2 <= argc /\ b + len <= t2
    BY <1>1, <1>2, <2>1
  <2>3. Fits(b, t2, len, b, l, t, b, t2)
    BY <1>1, <1>2, <2>1, <2>2, BottomEnds DEF Fits
  <2> HIDE DEF len, t2
  <2>4. Moved(Swapped(b, t2, len), b, l, t2) = Moved(argv, b, l, t)
    BY <1>1, <2>3, SwapEnds
  <2> QED BY <1>4, <2>1, <2>4
<1>6. CASE SwapTop
  <2> DEFINE len == t - l  b2 == b + len
  <2>1. len <= l - b /\ argv' = Swapped(b, l, len) /\ bottom' = b2 /\ top' = t
    BY <1>6, <1>1 DEF SwapTop
  <2>2. len \in Nat /\ b2 \in Nat /\ b2 <= l /\ 1 <= b2 /\ b + len <= l
    BY <1>1, <1>2, <2>1
  <2>3. Fits(b, l, len, b, l, t, b2, t)
    BY <1>1, <1>2, <2>1, <2>2, TopEnds DEF Fits
  <2> HIDE DEF len, b2
  <2>4. Moved(Swapped(b, l, len), b2, l, t) = Moved(argv, b, l, t)
    BY <1>1, <2>3, SwapEnds
  <2> QED BY <1>4, <2>1, <2>4
<1> QED BY <1>5, <1>6

(* What a part of a sequence is.                                           *)
LEMMA SliceIs ==
  ASSUME NEW q \in Seq(Elements), NEW i \in Nat, NEW j \in Nat, 1 <= i, i <= j + 1, j <= Len(q)
  PROVE  /\ SubSeq(q, i, j) \in Seq(Elements) /\ Len(SubSeq(q, i, j)) = j + 1 - i
         /\ \A k \in 1..(j + 1 - i) : SubSeq(q, i, j)[k] = q[i + k - 1]
<1>1. \A k \in i..j : q[k] \in Elements
  <2>1. \A k \in i..j : k \in 1..Len(q)
    OBVIOUS
  <2> QED BY <2>1, ItemIs
<1>2. i \in Int /\ j \in Int /\ j - i + 1 = j + 1 - i
  OBVIOUS
<1>3. /\ SubSeq(q, i, j) \in Seq(Elements)
      /\ Len(SubSeq(q, i, j)) = IF i <= j THEN j - i + 1 ELSE 0
      /\ \A k \in 1..(j - i + 1) : SubSeq(q, i, j)[k] = q[i + k - 1]
  BY <1>1, <1>2, SubSeqProperties
<1> QED BY <1>2, <1>3

LEMMA OneIs ==
  ASSUME NEW q \in Seq(Elements), NEW o \in 1..Len(q)
  PROVE  SubSeq(q, o, o) = <<q[o]>>
<1> DEFINE x == SubSeq(q, o, o)
<1>1. /\ x \in Seq(Elements) /\ Len(x) = o + 1 - o
      /\ \A k \in 1..(o + 1 - o) : x[k] = q[o + k - 1]
  <2>1. o \in Nat /\ 1 <= o /\ o <= o + 1 /\ o <= Len(q)
    OBVIOUS
  <2> QED BY <2>1, SliceIs
<1>2. o + 1 - o = 1 /\ o + 1 - 1 = o
  OBVIOUS
<1>3. x \in Seq(Elements) /\ Len(x) = 1 /\ x[1] = q[o]
  BY <1>1, <1>2
<1> HIDE DEF x
<1>4. x = <<x[1]>>
  BY <1>3
<1> QED BY <1>3, <1>4 DEF x

(* One element more has been skipped, or all that are left.                *)
LEMMA OneSkipped ==
  ASSUME NEW q \in Seq(Elements), NEW c \in Nat, NEW o \in 1..Len(q), c < o
  PROVE  SubSeq(q, c + 1, o) = SubSeq(q, c + 1, o - 1) \o <<q[o]>>
<1>1. SubSeq(q, c + 1, o - 1) \o SubSeq(q, (o - 1) + 1, o) = SubSeq(q, c + 1, o)
  <2>1. /\ c + 1 \in 1..(Len(q) + 1) /\ o - 1 \in ((c + 1) - 1)..Len(q)
        /\ o \in (o - 1)..Len(q)
    OBVIOUS
  <2> QED BY <2>1, ConcatAdjacentSubSeq
<1>2. (o - 1) + 1 = o
  OBVIOUS
<1>3. SubSeq(q, o, o) = <<q[o]>>
  BY OneIs
<1> QED BY <1>1, <1>2, <1>3

LEMMA AllSkipped ==
  ASSUME NEW q \in Seq(Elements), NEW c \in Nat, NEW o \in 1..(Len(q) + 1), c < o
  PROVE  SubSeq(q, c + 1, Len(q)) = SubSeq(q, c + 1, o - 1) \o SubSeq(q, o, Len(q))
<1>1. /\ c + 1 \in 1..(Len(q) + 1) /\ o - 1 \in ((c + 1) - 1)..Len(q)
      /\ Len(q) \in (o - 1)..Len(q) /\ (o - 1) + 1 = o
  OBVIOUS
<1> QED BY <1>1, ConcatAdjacentSubSeq

(* m elements more belong to options.                                      *)
Follows(b, l, t, m, c) ==
  /\ \A k \in 1..c : Source(b, l, t + m, k) = Source(b, l, t, k)
  /\ \A k \in 1..m : Source(b, l, t + m, c + k) = t + k - 1
  /\ \A k \in 1..(l - b) : Source(b, l, t + m, c + m + k) = Source(b, l, t, c + k)

LEMMA MoreSources ==
  ASSUME NEW b \in Nat, NEW l \in Nat, NEW t \in Nat, NEW m \in Nat,
         1 <= b, b <= l, l <= t, NEW c, c = b - 1 + (t - l)
  PROVE  Follows(b, l, t, m, c)
BY DEF Source, Follows

Grows(q, b, l, t, m, c) ==
  /\ SubSeq(Moved(q, b, l, t + m), 1, c + m) =
       SubSeq(Moved(q, b, l, t), 1, c) \o SubSeq(q, t, t + m - 1)
  /\ SubSeq(Moved(q, b, l, t + m), c + m + 1, t + m - 1) =
       SubSeq(Moved(q, b, l, t), c + 1, t - 1)

LEMMA MoreTaken ==
  ASSUME NEW q \in Seq(Elements), NEW b \in Nat, NEW l \in Nat, NEW t \in Nat, NEW m \in Nat,
         1 <= b, b <= l, l <= t, t + m <= Len(q) + 1, NEW c, c = b - 1 + (t - l)
  PROVE  Grows(q, b, l, t, m, c)
<1> DEFINE new == Moved(q, b, l, t + m)  old == Moved(q, b, l, t)  n == Len(q)
<1>1. /\ n \in Nat /\ c \in Nat /\ t + m \in Nat /\ l <= t + m /\ c + m \in Nat
      /\ c + m <= n /\ c + m + 1 <= t + m /\ t + m - 1 \in Nat /\ t + m - 1 <= n
      /\ t - 1 \in Nat /\ t - 1 <= n /\ c + 1 <= t /\ c <= n /\ t <= n + 1
      /\ t + m - 1 + 1 - t = m /\ t + m - 1 + 1 - (c + m + 1) = l - b
      /\ t - 1 + 1 - (c + 1) = l - b
  OBVIOUS
<1>6. Within(q, b, l, t + m) /\ Within(q, b, l, t)
  BY <1>1 DEF Within
<1>7. /\ \A k \in 1..c : Source(b, l, t + m, k) = Source(b, l, t, k)
      /\ \A k \in 1..m : Source(b, l, t + m, c + k) = t + k - 1
      /\ \A k \in 1..(l - b) : Source(b, l, t + m, c + m + k) = Source(b, l, t, c + k)
  <2>1. Follows(b, l, t, m, c)
    BY MoreSources
  <2> QED BY <2>1 DEF Follows
<1>2. /\ new \in Seq(Elements) /\ Len(new) = n
      /\ \A k \in 1..n : new[k] = q[Source(b, l, t + m, k)]
  BY <1>6, MovedIs
<1>3. /\ old \in Seq(Elements) /\ Len(old) = n
      /\ \A k \in 1..n : old[k] = q[Source(b, l, t, k)]
  BY <1>6, MovedIs
<1> HIDE DEF new, old, n
<1>4. SubSeq(new, 1, c + m) = SubSeq(old, 1, c) \o SubSeq(q, t, t + m - 1)
  <2> DEFINE x == SubSeq(new, 1, c + m)  y == SubSeq(old, 1, c)  z == SubSeq(q, t, t + m - 1)
  <2>1. /\ x \in Seq(Elements) /\ Len(x) = c + m
        /\ \A k \in 1..(c + m) : x[k] = new[k]
    <3>1. /\ x \in Seq(Elements) /\ Len(x) = c + m + 1 - 1
          /\ \A k \in 1..(c + m + 1 - 1) : x[k] = new[1 + k - 1]
      BY <1>1, <1>2, SliceIs
    <3> QED BY <1>1, <3>1
  <2>2. /\ y \in Seq(Elements) /\ Len(y) = c
        /\ \A k \in 1..c : y[k] = old[k]
    <3>1. /\ y \in Seq(Elements) /\ Len(y) = c + 1 - 1
          /\ \A k \in 1..(c + 1 - 1) : y[k] = old[1 + k - 1]
      BY <1>1, <1>3, SliceIs
    <3> QED BY <1>1, <3>1
  <2>3. /\ z \in Seq(Elements) /\ Len(z) = m
        /\ \A k \in 1..m : z[k] = q[t + k - 1]
    <3>1. 1 <= t /\ t <= t + m - 1 + 1 /\ t + m - 1 <= Len(q)
      BY <1>1 DEF n
    <3> QED BY <1>1, <3>1, SliceIs
  <2> HIDE DEF x, y, z
  <2>4. /\ y \o z \in Seq(Elements) /\ Len(y \o z) = c + m
        /\ \A k \in 1..(c + m) : (y \o z)[k] = IF k <= c THEN y[k] ELSE z[k - c]
    BY <2>2, <2>3, ConcatProperties
  <2>5. ASSUME NEW k \in 1..(c + m) PROVE x[k] = (y \o z)[k]
    <3>1. k \in 1..n /\ x[k] = q[Source(b, l, t + m, k)]
      BY <1>1, <1>2, <2>1
    <3>2. CASE k <= c
      <4>1. k \in 1..c /\ (y \o z)[k] = old[k]
        BY <2>2, <2>4, <3>2
      <4>2. old[k] = q[Source(b, l, t, k)]
        BY <1>3, <3>1
      <4>3. Source(b, l, t + m, k) = Source(b, l, t, k)
        BY <1>7, <4>1
      <4> QED BY <3>1, <4>1, <4>2, <4>3
    <3>3. CASE ~(k <= c)
      <4>1. k - c \in 1..m /\ c + (k - c) = k
        BY <1>1, <3>3
      <4>2. (y \o z)[k] = q[t + (k - c) - 1]
        BY <2>3, <2>4, <3>3, <4>1
      <4>3. Source(b, l, t + m, c + (k - c)) = t + (k - c) - 1
        BY <1>7, <4>1
      <4> QED BY <3>1, <4>1, <4>2, <4>3
    <3> QED BY <3>2, <3>3
  <2>6. x = y \o z
    BY <2>1, <2>4, <2>5, SeqEqual
  <2> QED BY <2>6 DEF x, y, z
<1>5. SubSeq(new, c + m + 1, t + m - 1) = SubSeq(old, c + 1, t - 1)
  <2> DEFINE x == SubSeq(new, c + m + 1, t + m - 1)  y == SubSeq(old, c + 1, t - 1)
  <2>1. /\ x \in Seq(Elements) /\ Len(x) = l - b
        /\ \A k \in 1..(l - b) : x[k] = new[c + m + 1 + k - 1]
    <3>1. c + m + 1 \in Nat /\ 1 <= c + m + 1 /\ c + m + 1 <= t + m - 1 + 1
      BY <1>1
    <3> QED BY <1>1, <1>2, <3>1, SliceIs
  <2>2. /\ y \in Seq(Elements) /\ Len(y) = l - b
        /\ \A k \in 1..(l - b) : y[k] = old[c + 1 + k - 1]
    <3>1. c + 1 \in Nat /\ 1 <= c + 1 /\ c + 1 <= t - 1 + 1
      BY <1>1
    <3> QED BY <1>1, <1>3, <3>1, SliceIs
  <2> HIDE DEF x, y
  <2>3. ASSUME NEW k \in 1..(l - b) PROVE x[k] = y[k]
    <3>1. /\ c + m + 1 + k - 1 = c + m + k /\ c + 1 + k - 1 = c + k
          /\ c + m + k \in 1..n /\ c + k \in 1..n
      BY <1>1
    <3>2. x[k] = q[Source(b, l, t + m, c + m + k)] /\ y[k] = q[Source(b, l, t, c + k)]
      BY <1>2, <1>3, <2>1, <2>2, <3>1
    <3>3. Source(b, l, t + m, c + m + k) = Source(b, l, t, c + k)
      BY <1>7
    <3> QED BY <3>2, <3>3
  <2>4. x = y
    BY <2>1, <2>2, <2>3, SeqEqual
  <2> QED BY <2>4 DEF x, y
<1> QED BY <1>4, <1>5 DEF Grows, new, old

-----------------------------------------------------------------------------
GInv == OInv /\ Known /\ (Running => Settled /\ Unmoved)

LEMMA CallSettled == GInv /\ Call => GInv'
<1> SUFFICES ASSUME GInv, Call PROVE GInv'
  OBVIOUS
<1>1. OInv'
  BY CallRanges DEF GInv
<1>2. Known'
  BY DEF GInv, Known, Call, argVars
<1>3. Running /\ Settled /\ Unmoved
  BY DEF GInv, Call, Running
<1>4. Settled'
  <2>1. Order # None /\ (posixlyCorrect <=> Order = "REQUIRE_ORDER")
    BY TableAssumption DEF Order
  <2>2. /\ ordering' = Order /\ posixlyCorrect' = posixlyCorrect /\ Order' = Order
        /\ at' = IF posixlyCorrect THEN "dashes" ELSE "permute"
    BY DEF Call, Order, argVars
  <2>3. posixlyCorrect => firstNonopt' = lastNonopt'
    BY <1>3 DEF Call, Settled
  <2> QED BY <2>1, <2>2, <2>3, Zenon DEF Settled
<1>5. Unmoved'
  BY <1>3 DEF Unmoved, Call, argVars
<1> QED BY <1>1, <1>2, <1>4, <1>5 DEF GInv

LEMMA SwapSettled == GInv /\ (SwapBottom \/ SwapTop) => GInv'
<1> SUFFICES ASSUME GInv, SwapBottom \/ SwapTop PROVE GInv'
  OBVIOUS
<1>1. OInv'
  BY SwapRanges DEF GInv
<1>2. Running /\ Settled /\ Unmoved /\ Between
  BY DEF GInv, OInv, Ranges, SwapBottom, SwapTop, Exchanging, Running
<1>3. /\ argv \in Seq(Elements) /\ Len(argv) \in Nat /\ optind \in Nat /\ argc = Len(argv) + 1
      /\ bottom \in Nat /\ lastNonopt \in Nat /\ top \in Nat /\ 1 <= optind
      /\ UNCHANGED <<given, posixlyCorrect, ordering, rangeVars, resultVars, at>>
      /\ bottom < lastNonopt /\ lastNonopt < top /\ top <= optind
  BY <1>2 DEF GInv, OInv, InArgv, argc, SwapBottom, SwapTop, Between
<1>4. ASSUME NEW i \in Nat, NEW j \in Nat, NEW len \in Nat, i + len <= j, j + len <= top,
             argv' = Swapped(i, j, len)
      PROVE  Len(argv') = Len(argv) /\ \A k \in optind..Len(argv) : argv'[k] = argv[k]
  <2>1. /\ Len(Swapped(i, j, len)) = Len(argv)
        /\ \A k \in 1..Len(argv) : Swapped(i, j, len)[k] = argv[SwapSource(i, j, len, k)]
    BY <1>3, <1>4, SwappedIs
  <2>2. ASSUME NEW k \in optind..Len(argv) PROVE k \in 1..Len(argv) /\ SwapSource(i, j, len, k) = k
    BY <1>3, <1>4 DEF SwapSource
  <2> QED BY <1>4, <2>1, <2>2
<1>5. Len(argv') = Len(argv) /\ \A k \in optind..Len(argv) : argv'[k] = argv[k]
  <2>1. CASE SwapBottom
    <3> DEFINE len == lastNonopt - bottom  j == top - len
    <3>1. argv' = Swapped(bottom, j, len) /\ top - lastNonopt > len
      BY <2>1 DEF SwapBottom
    <3>2. j \in Nat /\ len \in Nat /\ bottom + len <= j /\ j + len <= top
      BY <1>3, <3>1
    <3> HIDE DEF len, j
    <3> QED BY <1>3, <1>4, <3>1, <3>2
  <2>2. CASE SwapTop
    <3> DEFINE len == top - lastNonopt
    <3>1. argv' = Swapped(bottom, lastNonopt, len) /\ len <= lastNonopt - bottom
      BY <2>2 DEF SwapTop
    <3>2. len \in Nat /\ bottom + len <= lastNonopt /\ lastNonopt + len <= top
      BY <1>3, <3>1
    <3> HIDE DEF len
    <3> QED BY <1>3, <1>4, <3>1, <3>2
  <2> QED BY <2>1, <2>2
<1>6. Known'
  BY <1>3, <1>5 DEF GInv, Known, resultVars
<1>7. Settled'
  <2>1. at \in {"exchange", "exchangeLast"}
    BY DEF SwapBottom, SwapTop, Exchanging
  <2> QED BY <1>2, <1>3, <2>1 DEF Settled, Order, rangeVars
<1>8. Unmoved'
  BY <1>2, <1>3, <1>5 DEF Unmoved, rangeVars
<1> QED BY <1>1, <1>6, <1>7, <1>8 DEF GInv

LEMMA ScanSettled ==
  GInv /\ (Permute \/ Exchanged \/ SkipNonOption \/ DashDash \/ TakeRest) => GInv'
<1> SUFFICES ASSUME GInv, Permute \/ Exchanged \/ SkipNonOption \/ DashDash \/ TakeRest
             PROVE  GInv'
  OBVIOUS
<1> DEFINE Way == Permute \/ Exchanged \/ SkipNonOption \/ DashDash \/ TakeRest
<1>1. OInv'
  BY ScanRanges DEF GInv
<1>2. UNCHANGED <<argVars, ordering, resultVars>> /\ at # "caller" /\ at' # "caller"
  BY DEF Permute, Exchanged, Exchanging, Exchange, SkipNonOption, DashDash, TakeRest
<1>3. Running /\ Settled /\ Unmoved /\ OInv
  BY <1>2 DEF GInv, Running
<1>4. Known'
  BY <1>2 DEF GInv, Known, argVars, resultVars
<1>5. /\ optind \in Nat /\ firstNonopt \in Nat /\ lastNonopt \in Nat /\ Len(argv) \in Nat
      /\ argc = Len(argv) + 1 /\ argc' = Len(argv) + 1 /\ optind <= argc
  BY <1>2, <1>3 DEF OInv, InArgv, argVars, argc
<1>6. optind' \in Nat /\ optind <= optind'
  BY <1>5 DEF Permute, Exchanged, SkipNonOption, DashDash, TakeRest
<1>7. Unmoved'
  BY <1>2, <1>3, <1>5, <1>6 DEF Unmoved, argVars
<1>8. Settled'
  <2> USE <1>2, <1>3, <1>5 DEF Settled, Order, argVars
  <2>1. CASE Permute
    BY <2>1 DEF Permute, Exchange
  <2>2. CASE Exchanged
    BY <2>2 DEF Exchanged, Exchanging
  <2>3. CASE SkipNonOption
    BY <2>3 DEF SkipNonOption
  <2>4. CASE DashDash
    BY <2>4 DEF DashDash, Exchange
  <2>5. CASE TakeRest
    BY <2>5 DEF TakeRest
  <2> QED BY <2>1, <2>2, <2>3, <2>4, <2>5
<1> QED BY <1>1, <1>4, <1>7, <1>8 DEF GInv

-----------------------------------------------------------------------------
(* What the scan of an option returns is what is read there.               *)
Refused ==
  /\ at = "scan" /\ at' = "caller" /\ ret' = "?"
  /\ results' = Append(results, <<"?", None>>)
  /\ UNCHANGED argVars
  /\ Read[optind] = Refusal

Takes(m, val, arg) ==
  /\ at = "scan" /\ at' = "caller" /\ ret' = val /\ val \notin {"end", "?"}
  /\ results' = Append(results, <<val, arg>>)
  /\ UNCHANGED <<argVars, ordering, firstNonopt, lastNonopt, swapVars>>
  /\ optind' = optind + m /\ optind + m <= argc
  /\ Read[optind] = OptionAt(optind, m, val, arg, Read[optind + m])

LEMMA HereAsGiven ==
  ASSUME GInv, at # "caller", optind # argc
  PROVE  /\ optind \in 1..Len(given) /\ Len(given) = Len(argv) /\ argc = Len(given) + 1
         /\ argv[optind] = given[optind] /\ argv[optind] \in Elements
         /\ optind < Len(given) => argv[optind + 1] = given[optind + 1]
<1>1. /\ argv \in Seq(Elements) /\ Len(argv) = Len(given) /\ argc = Len(argv) + 1
      /\ optind \in Nat /\ 1 <= optind /\ optind <= argc /\ Len(argv) \in Nat
  BY DEF GInv, OInv, InArgv, Known, argc
<1>2. Unmoved
  BY DEF GInv, Running
<1>3. optind \in 1..Len(argv) /\ optind \in optind..Len(argv)
  BY <1>1
<1>4. optind < Len(given) => optind + 1 \in optind..Len(argv)
  BY <1>1
<1> QED BY <1>1, <1>2, <1>3, <1>4, ItemIs DEF Unmoved

LEMMA LongHere ==
  ASSUME GInv, AtLong
  PROVE  /\ Read[optind] = LongAt(optind, Read[optind + 1], Read[optind + 2])
         /\ Element = given[optind] /\ Element.name \in Seq(STRING)
         /\ Element.eq \in Args
<1>1. at = "scan" /\ optind # argc /\ argv[optind].kind = "long" /\ given \in Seq(Elements)
  BY DEF AtLong, GInv, Known
<1>2. optind \in 1..Len(given) /\ argv[optind] = given[optind] /\ argv[optind] \in Elements
  BY <1>1, HereAsGiven
<1>3. Read[optind] = ReadAt(optind, Read[optind + 1], Read[optind + 2])
  BY <1>1, <1>2, ReadHere
<1>4. ReadAt(optind, Read[optind + 1], Read[optind + 2])
        = LongAt(optind, Read[optind + 1], Read[optind + 2])
  BY <1>1, <1>2 DEF ReadAt
<1>5. argv[optind].eq \in Args
  BY <1>2, WordsAre DEF Elements, Args
<1> QED BY <1>2, <1>3, <1>4, <1>5 DEF Element, Elements

(* The cases of LongAt one by one.                                         *)
Single(name) == \E m \in Meant(name) : Meant(name) = {m}
TheOne(name) == LongOpts[CHOOSE o \in Meant(name) : TRUE]

LEMMA LongCases ==
  ASSUME NEW i, NEW next, NEW afterNext
  PROVE  LET e == given[i]
             o == TheOne(e.name)
         IN  LongAt(i, next, afterNext) =
               IF ~Single(e.name) THEN Refusal
               ELSE IF e.eq # None
               THEN IF o.hasArg THEN OptionAt(i, 1, o.val, e.eq, next) ELSE Refusal
               ELSE IF ~o.hasArg THEN OptionAt(i, 1, o.val, None, next)
               ELSE IF i < Len(given) THEN OptionAt(i, 2, o.val, Str(given[i + 1]), afterNext)
               ELSE Refusal
<1> DEFINE e == given[i]
           o == TheOne(e.name)
           a == OptionAt(i, 1, o.val, e.eq, next)
           b == OptionAt(i, 2, o.val, Str(given[i + 1]), afterNext)
           c == OptionAt(i, 1, o.val, None, next)
           one == Single(e.name)  bare == e.eq = None  takes == o.hasArg  more == i < Len(given)
<1>1. LongAt(i, next, afterNext) =
        CASE ~one -> Refusal
          [] OTHER ->
               CASE ~bare /\ takes -> a
                 [] bare /\ takes /\ more -> b
                 [] bare /\ ~takes -> c
                 [] OTHER -> Refusal
  BY Zenon DEF LongAt, Single, TheOne
<1> SUFFICES LongAt(i, next, afterNext) =
               IF ~one THEN Refusal
               ELSE IF ~bare THEN IF takes THEN a ELSE Refusal
               ELSE IF ~takes THEN c ELSE IF more THEN b ELSE Refusal
  BY Zenon
<1> HIDE DEF a, b, c, one, bare, takes, more
<1>2. CASE ~one
  BY <1>1, <1>2
<1>3. CASE one /\ ~bare
  BY <1>1, <1>3
<1>4. CASE one /\ bare /\ takes
  BY <1>1, <1>4
<1>5. CASE one /\ bare /\ ~takes
  BY <1>1, <1>5
<1> QED BY <1>2, <1>3, <1>4, <1>5

LEMMA RefuseOutcome == GInv /\ RefuseOption => Refused
<1> SUFFICES ASSUME GInv, RefuseOption PROVE Refused
  OBVIOUS
<1>1. AtLong /\ (Found(Element.name) = None \/ Ambiguous(Element.name))
      /\ Return("?", None) /\ UNCHANGED argVars
  BY DEF RefuseOption
<1>2. Element.name \in Seq(STRING) /\ Element = given[optind]
      /\ Read[optind] = LongAt(optind, Read[optind + 1], Read[optind + 2])
  BY <1>1, LongHere
<1>3. ~Single(given[optind].name)
  BY <1>1, <1>2, FoundIsMeant DEF Single
<1>4. Read[optind] = Refusal
  BY <1>2, <1>3, LongCases
<1> QED BY <1>1, <1>4 DEF Refused, Return, AtLong

LEMMA ShortOutcome == GInv /\ ShortOption => Refused
<1> SUFFICES ASSUME GInv, ShortOption PROVE Refused
  OBVIOUS
<1>1. at = "scan" /\ optind # argc /\ argv[optind].kind = "short" /\ given \in Seq(Elements)
      /\ Return("?", None) /\ UNCHANGED argVars
  BY DEF ShortOption, GInv, Known
<1>2. optind \in 1..Len(given) /\ argv[optind] = given[optind]
  BY <1>1, HereAsGiven
<1>3. Read[optind] = ReadAt(optind, Read[optind + 1], Read[optind + 2])
  BY <1>1, <1>2, ReadHere
<1>4. ReadAt(optind, Read[optind + 1], Read[optind + 2]) = Refusal
  BY <1>1, <1>2 DEF ReadAt
<1> QED BY <1>1, <1>3, <1>4 DEF Refused, Return

(* An option that is known takes its elements or is refused.               *)
LEMMA KnownOutcome ==
  GInv /\ (InlineArgument \/ NextArgument \/ PlainOption) =>
    Refused \/ \E m \in {1, 2}, val \in Words, arg \in Args : Takes(m, val, arg)
<1> SUFFICES ASSUME GInv, InlineArgument \/ NextArgument \/ PlainOption
             PROVE  Refused \/ \E m \in {1, 2}, val \in Words, arg \in Args : Takes(m, val, arg)
  OBVIOUS
<1> DEFINE e == given[optind]
           o == TheOne(e.name)
           next == Read[optind + 1]  afterNext == Read[optind + 2]
<1>1. /\ AtLong /\ Found(Element.name) # None /\ ~Ambiguous(Element.name)
      /\ UNCHANGED <<argVars, ordering, firstNonopt, lastNonopt, swapVars>>
  BY DEF InlineArgument, NextArgument, PlainOption
<1>2. /\ Element = e /\ e.name \in Seq(STRING) /\ e.eq \in Args
      /\ Read[optind] = LongAt(optind, next, afterNext)
  BY <1>1, LongHere
<1>3. at = "scan" /\ optind # argc
  BY <1>1 DEF AtLong
<1>4. /\ optind \in 1..Len(given) /\ argc = Len(given) + 1 /\ Len(given) = Len(argv)
      /\ optind < Len(given) => argv[optind + 1] = given[optind + 1]
      /\ given \in Seq(Elements) /\ Len(given) \in Nat
  BY <1>3, HereAsGiven DEF GInv, Known
<1>5. Single(e.name) /\ Found(Element.name) = o
  BY <1>1, <1>2, FoundIsMeant DEF Single, TheOne
<1>6. o.hasArg \in BOOLEAN /\ o.val \in Words /\ o.val \notin {"end", "?"}
  <2>1. (CHOOSE k \in Meant(e.name) : TRUE) \in Meant(e.name)
    BY <1>5 DEF Single
  <2> QED BY <2>1, MeantIs, OptIs DEF TheOne
<1>7. /\ optind + 1 <= argc /\ optind + 1 < argc <=> optind < Len(given)
      /\ optind + 1 < argc => optind + 2 <= argc
      /\ optind + 1 = argc <=> ~(optind < Len(given))
  BY <1>4
<1>8. Read[optind] =
        IF e.eq # None
        THEN IF o.hasArg THEN OptionAt(optind, 1, o.val, e.eq, next) ELSE Refusal
        ELSE IF ~o.hasArg THEN OptionAt(optind, 1, o.val, None, next)
        ELSE IF optind < Len(given)
        THEN OptionAt(optind, 2, o.val, Str(given[optind + 1]), afterNext) ELSE Refusal
  BY <1>2, <1>5, LongCases
<1>9. None \in Args /\ 1 \in {1, 2} /\ 2 \in {1, 2}
  BY DEF Args
<1> HIDE DEF e, o
<1>10. CASE InlineArgument
  <2>1. e.eq # None /\ optind' = optind + 1
        /\ IF o.hasArg THEN Return(o.val, e.eq) ELSE Return("?", None)
    BY <1>2, <1>5, <1>10 DEF InlineArgument
  <2>2. CASE o.hasArg
    <3>1. Takes(1, o.val, e.eq)
      BY <1>1, <1>3, <1>6, <1>7, <1>8, <2>1, <2>2 DEF Takes, Return
    <3> QED BY <1>2, <1>6, <1>9, <3>1
  <2>3. CASE ~o.hasArg
    BY <1>1, <1>3, <1>8, <2>1, <2>3 DEF Refused, Return
  <2> QED BY <2>2, <2>3
<1>11. CASE NextArgument
  <2>1. /\ e.eq = None /\ o.hasArg
        /\ \/ /\ optind + 1 < argc /\ optind' = optind + 2
              /\ Return(o.val, Str(argv[optind + 1]))
           \/ /\ optind + 1 = argc /\ Return("?", None)
    BY <1>2, <1>5, <1>11 DEF NextArgument
  <2>2. CASE optind + 1 < argc
    <3>1. optind < Len(given) /\ argv[optind + 1] = given[optind + 1] /\ optind + 2 <= argc
          /\ optind' = optind + 2 /\ Return(o.val, Str(given[optind + 1]))
      BY <1>4, <1>7, <2>1, <2>2
    <3>2. Takes(2, o.val, Str(given[optind + 1]))
      BY <1>1, <1>3, <1>6, <1>8, <2>1, <3>1 DEF Takes, Return
    <3>3. Str(given[optind + 1]) \in Args
      <4>1. optind + 1 \in 1..Len(given)
        BY <1>4, <3>1
      <4> QED BY <1>4, <4>1, ItemIs, StrIs DEF Args
    <3> QED BY <1>6, <1>9, <3>2, <3>3
  <2>3. CASE ~(optind + 1 < argc)
    <3>1. ~(optind < Len(given)) /\ Return("?", None)
      BY <1>7, <2>1, <2>3
    <3> QED BY <1>1, <1>3, <1>8, <2>1, <3>1 DEF Refused, Return
  <2> QED BY <2>2, <2>3
<1>12. CASE PlainOption
  <2>1. e.eq = None /\ ~o.hasArg /\ optind' = optind + 1 /\ Return(o.val, None)
    BY <1>2, <1>5, <1>12 DEF PlainOption
  <2>2. Takes(1, o.val, None)
    BY <1>1, <1>3, <1>6, <1>7, <1>8, <2>1 DEF Takes, Return
  <2> QED BY <1>6, <1>9, <2>2
<1> QED BY <1>10, <1>11, <1>12

-----------------------------------------------------------------------------
LEMMA Joined ==
  ASSUME NEW r \in Seq(Outs), NEW x \in Outs, NEW l \in Seq(Outs)
  PROVE  Append(r, x) \in Seq(Outs) /\ Append(r, x) \o l = r \o (<<x>> \o l)
<1>1. <<x>> \in Seq(Outs) /\ Append(r, x) = r \o <<x>> /\ Append(r, x) \in Seq(Outs)
  BY Singleton, AppendIsConcat
<1>2. (r \o <<x>>) \o l = r \o (<<x>> \o l)
  BY <1>1, ConcatAssociative
<1> QED BY <1>1, <1>2

LEMMA Associative ==
  ASSUME NEW q \in Seq(Elements), NEW r \in Seq(Elements), NEW l \in Seq(Elements)
  PROVE  (q \o r) \o l = q \o (r \o l)
BY ConcatAssociative

LEMMA SameSlice ==
  ASSUME NEW i \in Nat, NEW j \in Nat, \A k \in i..j : argv[k] = given[k]
  PROVE  SubSeq(argv, i, j) = SubSeq(given, i, j)
<1>1. \A k \in 1..(j - i + 1) : i + k - 1 \in i..j
  OBVIOUS
<1>2. \A k \in 1..(j - i + 1) : argv[i + k - 1] = given[i + k - 1]
  BY <1>1
<1>3. /\ SubSeq(argv, i, j) = [k \in 1..(j - i + 1) |-> argv[i + k - 1]]
      /\ SubSeq(given, i, j) = [k \in 1..(j - i + 1) |-> given[i + k - 1]]
  OBVIOUS
<1> QED BY <1>2, <1>3

(* Where the parts of argv are.                                            *)
LEMMA PartsAre ==
  ASSUME GInv, Running
  PROVE  /\ Within(argv, Low, Lst, High) /\ High <= optind
         /\ Taken \in Nat /\ Taken + 1 <= optind /\ optind \in 1..(Len(argv) + 1)
         /\ Len(argv) \in Nat /\ argv \in Seq(Elements)
         /\ ~Exchanging => Taken = Low - 1 + (High - Lst) /\ High = optind
         /\ ordering # None => Fst = firstNonopt
         /\ at # "caller" => ordering # None
<1>1. /\ argv \in Seq(Elements) /\ Len(argv) \in Nat /\ argc = Len(argv) + 1
      /\ optind \in Nat /\ firstNonopt \in Nat /\ lastNonopt \in Nat /\ bottom \in Nat
      /\ top \in Nat /\ at \in GetoptLabels /\ 1 <= optind /\ optind <= argc
      /\ Ranges /\ Settled /\ optind \in 1..(Len(argv) + 1)
  BY DEF GInv, OInv, InArgv, argc
<1> USE DEF Low, High, Lst, Fst, Taken
<1>2. CASE ordering = None
  <2>1. ~Exchanging /\ at = "caller"
    BY <1>1, <1>2 DEF Settled, Exchanging
  <2> QED BY <1>1, <1>2, <2>1 DEF Within
<1>3. CASE ordering # None /\ Exchanging
  <2>1. Between /\ at \notin {"skip", "last"}
    BY <1>1, <1>3 DEF Exchanging, Ranges
  <2>2. /\ Low = bottom /\ High = top /\ Lst = lastNonopt /\ Fst = firstNonopt
    BY <1>3, <2>1
  <2> QED BY <1>1, <1>3, <2>1, <2>2 DEF Within, Between
<1>4. CASE ordering # None /\ at \in {"skip", "last"}
  <2>1. Beginning /\ ~Exchanging
    BY <1>1, <1>4 DEF Exchanging, Ranges
  <2>2. /\ Low = firstNonopt /\ High = optind /\ Lst = optind /\ Fst = firstNonopt
    BY <1>4, <2>1
  <2> QED BY <1>1, <1>4, <2>1, <2>2 DEF Within, Beginning
<1>5. CASE ordering # None /\ ~Exchanging /\ at \notin {"skip", "last"}
  <2>1. Skipped
    BY <1>1, <1>5 DEF Exchanging, Ranges, GetoptLabels, Running
  <2>2. /\ Low = firstNonopt /\ High = optind /\ Lst = lastNonopt /\ Fst = firstNonopt
    BY <1>5, <2>1
  <2> QED BY <1>1, <1>5, <2>1, <2>2 DEF Within, Skipped
<1> QED BY <1>2, <1>3, <1>4, <1>5

LEMMA SoFarIs ==
  ASSUME GInv, Running
  PROVE  /\ Sorted \in Seq(Elements) /\ Len(Sorted) = Len(argv)
         /\ OptionsSoFar \in Seq(Elements) /\ RestSoFar \in Seq(Elements)
         /\ Len(OptionsSoFar) = Taken
         /\ OptionsSoFar \o RestSoFar = SubSeq(Sorted, 1, optind - 1)
<1>1. /\ Within(argv, Low, Lst, High) /\ Taken \in Nat /\ Taken + 1 <= optind
      /\ optind \in 1..(Len(argv) + 1) /\ Len(argv) \in Nat /\ argv \in Seq(Elements)
  BY PartsAre
<1>2. Sorted \in Seq(Elements) /\ Len(Sorted) = Len(argv)
  BY <1>1, MovedIs DEF Sorted
<1>3. /\ 1 \in 1..(Len(Sorted) + 1) /\ Taken \in (1 - 1)..Len(Sorted)
      /\ optind - 1 \in Taken..Len(Sorted)
      /\ 1 <= Taken + 1 /\ Taken <= Len(Sorted) /\ Taken + 1 \in Nat /\ optind - 1 \in Nat
      /\ 1 <= Taken + 1 /\ Taken + 1 <= optind - 1 + 1 /\ optind - 1 <= Len(Sorted)
      /\ Taken + 1 - 1 = Taken
  BY <1>1, <1>2
<1>4. OptionsSoFar \in Seq(Elements) /\ Len(OptionsSoFar) = Taken
  BY <1>1, <1>2, <1>3, SliceIs DEF OptionsSoFar
<1>5. RestSoFar \in Seq(Elements)
  BY <1>1, <1>2, <1>3, SliceIs DEF RestSoFar
<1>6. OptionsSoFar \o RestSoFar = SubSeq(Sorted, 1, optind - 1)
  BY <1>2, <1>3, ConcatAdjacentSubSeq DEF OptionsSoFar, RestSoFar
<1> QED BY <1>2, <1>4, <1>5, <1>6

LEMMA ResultsStay ==
  ASSUME GInv, NEW val \in Words, NEW arg \in Args, results' = Append(results, <<val, arg>>)
  PROVE  results' \in Seq(Outs)
BY DEF GInv, Known, Outs

LEMMA RefusedSettled == GInv /\ OInv' /\ Refused => GInv'
<1> SUFFICES ASSUME GInv, OInv', Refused PROVE GInv'
  OBVIOUS
<1>1. results' \in Seq(Outs)
  <2>1. "?" \in Words /\ None \in Args
    BY DEF Words, Args
  <2> QED BY <2>1, ResultsStay DEF Refused
<1> QED BY <1>1 DEF GInv, Known, Refused, argVars, Running

LEMMA TakesSettled ==
  ASSUME GInv, OInv', NEW m \in {1, 2}, NEW val \in Words, NEW arg \in Args, Takes(m, val, arg)
  PROVE  GInv'
<1>1. Known'
  BY ResultsStay DEF GInv, Known, Takes, argVars
<1>2. Running /\ Settled /\ Unmoved
  BY DEF GInv, Running, Takes
<1>3. optind \in Nat /\ optind' = optind + m /\ optind # argc /\ optind <= optind'
  BY DEF GInv, OInv, InArgv, Takes, argc
<1>4. Unmoved'
  BY <1>2, <1>3 DEF Unmoved, Takes, argVars
<1>5. Settled'
  <2>1. /\ posixlyCorrect' = posixlyCorrect /\ ordering' = ordering /\ firstNonopt' = firstNonopt
        /\ lastNonopt' = lastNonopt /\ at = "scan" /\ at' = "caller" /\ Order' = Order
    BY DEF Takes, argVars, Order
  <2>2. /\ ordering = Order /\ (posixlyCorrect => firstNonopt = lastNonopt)
    BY <1>2, <1>3, <2>1 DEF Settled
  <2> QED BY <2>1, <2>2, Zenon DEF Settled
<1> QED BY <1>1, <1>4, <1>5 DEF GInv

LEMMA TakesReads ==
  ASSUME GInv, OnTheWay, NEW m \in {1, 2}, NEW val \in Words, NEW arg \in Args,
         Takes(m, val, arg)
  PROVE  OnTheWay'
<1> DEFINE b == firstNonopt  l == lastNonopt  t == optind  later == Read[optind + m]
           part == SubSeq(given, optind, optind + m - 1)
<1>1. /\ Running /\ at = "scan" /\ at' = "caller" /\ ~Exchanging /\ ~Exchanging'
      /\ ordering # None /\ ordering' # None
  BY DEF GInv, Running, Settled, Takes, Exchanging
<1>2. /\ Low = b /\ Lst = l /\ High = t /\ Fst = b
      /\ Low' = b /\ Lst' = l /\ High' = t + m /\ Fst' = b
      /\ optind' = t + m /\ argv' = argv /\ given' = given /\ posixlyCorrect' = posixlyCorrect
  BY <1>1 DEF Low, Lst, High, Fst, Takes, argVars
<1>3. /\ Within(argv, b, l, t) /\ t + m <= Len(argv) + 1 /\ t \in 1..(Len(argv) + 1)
      /\ Len(argv) \in Nat /\ argv \in Seq(Elements) /\ Taken \in Nat
      /\ Taken = b - 1 + (t - l)
  BY <1>1, <1>2, PartsAre DEF Takes, argc
<1>4. /\ b \in Nat /\ l \in Nat /\ t \in Nat /\ m \in Nat /\ 1 <= b /\ b <= l /\ l <= t
  BY <1>3 DEF Within
<1>5. Taken' = Taken + m
  BY <1>2, <1>3, <1>4 DEF Taken
<1>6. part = SubSeq(argv, t, t + m - 1)
  <2>1. t + m - 1 \in Nat /\ \A k \in t..(t + m - 1) : k \in optind..Len(argv)
    BY <1>3, <1>4
  <2>2. \A k \in t..(t + m - 1) : argv[k] = given[k]
    BY <1>1, <2>1 DEF GInv, Unmoved
  <2> QED BY <1>4, <2>1, <2>2, SameSlice
<1>7. /\ OptionsSoFar' = OptionsSoFar \o part /\ RestSoFar' = RestSoFar
  <2>1. /\ SubSeq(Moved(argv, b, l, t + m), 1, Taken + m) =
             SubSeq(Moved(argv, b, l, t), 1, Taken) \o SubSeq(argv, t, t + m - 1)
        /\ SubSeq(Moved(argv, b, l, t + m), Taken + m + 1, t + m - 1) =
             SubSeq(Moved(argv, b, l, t), Taken + 1, t - 1)
    <3>1. Grows(argv, b, l, t, m, Taken)
      BY <1>3, <1>4, MoreTaken
    <3> QED BY <3>1 DEF Grows
  <2>2. Sorted = Moved(argv, b, l, t) /\ Sorted' = Moved(argv, b, l, t + m)
    BY <1>2 DEF Sorted
  <2>3. /\ OptionsSoFar' = SubSeq(Sorted', 1, Taken')
        /\ RestSoFar' = SubSeq(Sorted', Taken' + 1, optind' - 1)
        /\ OptionsSoFar = SubSeq(Sorted, 1, Taken)
        /\ RestSoFar = SubSeq(Sorted, Taken + 1, optind - 1)
    BY DEF OptionsSoFar, RestSoFar
  <2>4. OptionsSoFar' = SubSeq(Moved(argv, b, l, t + m), 1, Taken + m)
    BY <1>5, <2>2, <2>3
  <2>5. RestSoFar' = SubSeq(Moved(argv, b, l, t + m), Taken + m + 1, t + m - 1)
    <3>1. Taken' + 1 = Taken + m + 1 /\ optind' - 1 = t + m - 1
      BY <1>2, <1>3, <1>4, <1>5
    <3>2. RestSoFar' = SubSeq(Sorted', Taken + m + 1, t + m - 1)
      BY <2>3, <3>1
    <3> QED BY <2>2, <3>2
  <2> QED BY <1>6, <2>1, <2>2, <2>3, <2>4, <2>5
<1>8. Ahead = OptionAt(optind, m, val, arg, later) /\ Ahead' = later
  <2>1. Read' = Read
    BY <1>2, SameReading
  <2>2. Read[optind] = OptionAt(optind, m, val, arg, later)
    BY DEF Takes
  <2> QED BY <1>1, <1>2, <2>1, <2>2 DEF Ahead
<1>9. later \in Readings
  <2>1. given \in Seq(Elements) /\ Len(given) = Len(argv)
    BY DEF GInv, Known
  <2>2. optind + m \in 1..End
    BY <1>3, <1>4, <2>1 DEF End
  <2> QED BY <2>1, <2>2, ReadTyped
<1>10. /\ Ahead.results = <<<<val, arg>>>> \o later.results
       /\ Ahead.options = part \o later.options /\ Ahead.rest = later.rest
  <2> HIDE DEF later, part
  <2>1. OptionAt(optind, m, val, arg, later) =
          [results |-> <<<<val, arg>>>> \o later.results,
           options |-> part \o later.options, rest |-> later.rest]
    BY DEF OptionAt, part
  <2> QED BY <1>8, <2>1
<1>11. /\ results \in Seq(Outs) /\ <<val, arg>> \in Outs /\ part \in Seq(Elements)
       /\ later.results \in Seq(Outs) /\ later.options \in Seq(Elements)
  <2>1. later.results \in Seq(Outs) /\ later.options \in Seq(Elements)
    <3> HIDE DEF later
    <3> QED BY <1>9 DEF Readings
  <2>2. part \in Seq(Elements)
    <3>1. t + m - 1 \in Nat /\ t <= t + m - 1 + 1 /\ t + m - 1 <= Len(argv) /\ 1 <= t
      BY <1>3, <1>4
    <3> HIDE DEF part
    <3> QED BY <1>3, <1>4, <1>6, <3>1, SliceIs
  <2> QED BY <2>1, <2>2 DEF GInv, Known, Outs
<1>12. OptionsSoFar \in Seq(Elements)
  BY <1>1, SoFarIs
<1>13. results' = Append(results, <<val, arg>>) /\ Reading' = Reading
  BY <1>2, SameReading DEF Takes
<1> HIDE DEF later, part
<1>14. Reading.results = results' \o later.results
  <2> DEFINE x == <<val, arg>>  behind == later.results
  <2> HIDE DEF x, behind
  <2>1. x \in Outs /\ behind \in Seq(Outs) /\ results \in Seq(Outs)
    BY <1>11 DEF x, behind
  <2>2. Append(results, x) \o behind = results \o (<<x>> \o behind)
    BY <2>1, Joined
  <2> QED BY <1>10, <1>13, <2>2 DEF OnTheWay, x, behind
<1>15. Reading.options = OptionsSoFar' \o later.options
  <2> DEFINE behind == later.options
  <2> HIDE DEF behind
  <2>1. behind \in Seq(Elements)
    BY <1>11 DEF behind
  <2>2. (OptionsSoFar \o part) \o behind = OptionsSoFar \o (part \o behind)
    BY <1>11, <1>12, <2>1, Associative
  <2> QED BY <1>7, <1>10, <2>2 DEF OnTheWay, behind
<1>16. Reading.rest = RestSoFar' \o later.rest
  BY <1>7, <1>10 DEF OnTheWay
<1> QED BY <1>8, <1>13, <1>14, <1>15, <1>16 DEF OnTheWay

(* A step that reads no element.                                           *)
Stays ==
  /\ UNCHANGED <<given, posixlyCorrect, results, optind>>
  /\ Sorted' = Sorted /\ Taken' = Taken
  /\ at \in {"exchangeLast", "last"} <=> at' \in {"exchangeLast", "last"}

LEMMA StaysReads == OnTheWay /\ Stays => OnTheWay'
<1> SUFFICES ASSUME OnTheWay, Stays PROVE OnTheWay'
  OBVIOUS
<1>1. Read' = Read /\ Reading' = Reading /\ \A i : StopAt(i)' = StopAt(i)
  BY SameReading DEF Stays
<1>2. StopAt(optind)' = StopAt(optind)
  BY DEF Stays, StopAt
<1>3. Ahead' = Ahead
  BY <1>1, <1>2 DEF Ahead, Stays
<1>4. OptionsSoFar' = OptionsSoFar /\ RestSoFar' = RestSoFar
  BY DEF OptionsSoFar, RestSoFar, Stays
<1> QED BY <1>1, <1>3, <1>4 DEF OnTheWay, Stays

LEMMA CallStays == GInv /\ Call => Stays
<1> SUFFICES ASSUME GInv, Call PROVE Stays
  OBVIOUS
<1>1. /\ at = "caller" /\ at' \in {"permute", "dashes"} /\ Settled
      /\ UNCHANGED <<given, posixlyCorrect, results, optind, argv>>
      /\ ~Exchanging /\ ~Exchanging' /\ ordering' # None
      /\ firstNonopt' = IF ordering = None THEN optind ELSE firstNonopt
      /\ lastNonopt' = IF ordering = None THEN optind ELSE lastNonopt
  BY TableAssumption DEF Call, Order, argVars, Exchanging, GInv, Running
<1>2. Low' = Low /\ Lst' = Lst /\ High' = High /\ Fst' = Fst
  BY <1>1 DEF Low, Lst, High, Fst
<1> QED BY <1>1, <1>2 DEF Stays, Sorted, Taken

LEMMA PermuteStays == GInv /\ Permute => Stays
<1> SUFFICES ASSUME GInv, Permute PROVE Stays
  OBVIOUS
<1>1. /\ at = "permute" /\ UNCHANGED <<given, posixlyCorrect, results, optind, argv, ordering>>
      /\ UNCHANGED lastNonopt /\ ordering # None /\ ~Exchanging
  BY DEF Permute, argVars, resultVars, GInv, Settled, Running, Exchanging
<1>2. /\ firstNonopt \in Nat /\ lastNonopt \in Nat /\ optind \in Nat /\ argv \in Seq(Elements)
      /\ firstNonopt <= lastNonopt /\ lastNonopt <= optind
  BY <1>1 DEF GInv, OInv, InArgv, Ranges, Skipped
<1>3. Low = firstNonopt /\ Lst = lastNonopt /\ High = optind /\ Fst = firstNonopt
  BY <1>1 DEF Low, Lst, High, Fst
<1>4. CASE Exchange("exchange", optind) /\ UNCHANGED firstNonopt
  <2>1. Exchanging' /\ at' = "exchange" /\ bottom' = firstNonopt /\ top' = optind
    BY <1>4 DEF Exchange, Exchanging
  <2>2. Low' = Low /\ Lst' = Lst /\ High' = High /\ Fst' = Fst
    BY <1>1, <1>3, <1>4, <2>1 DEF Low, Lst, High, Fst
  <2> QED BY <1>1, <2>1, <2>2 DEF Stays, Sorted, Taken
<1>5. CASE firstNonopt = lastNonopt /\ firstNonopt' = optind /\ at' = "skip"
  <2>1. Low' = optind /\ Lst' = optind /\ High' = optind /\ Fst' = optind
    BY <1>1, <1>5 DEF Low, Lst, High, Fst, Exchanging
  <2>2. /\ Moved(argv, optind, optind, optind) = argv
        /\ Moved(argv, firstNonopt, lastNonopt, optind) = argv
    BY <1>2, <1>5, NothingMoves
  <2>3. Taken' = Taken
    BY <1>1, <1>2, <1>3, <1>5, <2>1 DEF Taken
  <2> QED BY <1>1, <1>3, <1>5, <2>1, <2>2, <2>3 DEF Stays, Sorted
<1>6. CASE lastNonopt = optind /\ at' = "skip" /\ UNCHANGED firstNonopt
  <2>1. Low' = Low /\ Lst' = Lst /\ High' = High /\ Fst' = Fst
    BY <1>1, <1>3, <1>6 DEF Low, Lst, High, Fst, Exchanging
  <2> QED BY <1>1, <1>6, <2>1 DEF Stays, Sorted, Taken
<1> QED BY <1>4, <1>5, <1>6 DEF Permute

LEMMA SwapStays == GInv /\ (SwapBottom \/ SwapTop) => Stays
<1> SUFFICES ASSUME GInv, SwapBottom \/ SwapTop PROVE Stays
  OBVIOUS
<1>1. /\ UNCHANGED <<given, posixlyCorrect, ordering, rangeVars, resultVars, at>>
      /\ at \in {"exchange", "exchangeLast"} /\ ordering # None /\ OInv
  BY DEF SwapBottom, SwapTop, Exchanging, GInv, Settled, Running
<1>2. Sorted' = Sorted
  BY <1>1, SwapsKeepSorted
<1>3. Taken' = Taken
  BY <1>1 DEF Taken, Fst, Lst, rangeVars
<1> QED BY <1>1, <1>2, <1>3 DEF Stays, rangeVars, resultVars

LEMMA ExchangedStays == GInv /\ Exchanged => Stays
<1> SUFFICES ASSUME GInv, Exchanged PROVE Stays
  OBVIOUS
<1>1. /\ Exchanging /\ UNCHANGED <<given, posixlyCorrect, results, optind, argv, ordering>>
      /\ ordering # None /\ at # "caller"
      /\ firstNonopt' = firstNonopt + (optind - lastNonopt)
      /\ lastNonopt' = optind
      /\ at' = IF at = "exchange" THEN "skip" ELSE "last"
      /\ ~(top > lastNonopt /\ lastNonopt > bottom)
  BY DEF Exchanged, argVars, resultVars, GInv, Settled, Running, Exchanging
<1>2. /\ firstNonopt \in Nat /\ lastNonopt \in Nat /\ optind \in Nat /\ argv \in Seq(Elements)
      /\ bottom \in Nat /\ top \in Nat /\ Between
  BY <1>1 DEF GInv, OInv, InArgv, Ranges, Exchanging
<1>3. at \notin {"skip", "last"} /\ at \in {"exchange", "exchangeLast"} /\ at' \in {"skip", "last"}
      /\ (at = "exchangeLast" <=> at' = "last") /\ ~Exchanging'
  BY <1>1 DEF Exchanging
<1>4. Low = bottom /\ Lst = lastNonopt /\ High = top /\ Fst = firstNonopt
  BY <1>1, <1>3 DEF Low, Lst, High, Fst
<1>5. /\ Low' = firstNonopt' /\ Lst' = optind /\ High' = optind /\ Fst' = firstNonopt'
  BY <1>1, <1>3 DEF Low, Lst, High, Fst
<1>6. firstNonopt' \in Nat /\ (bottom = lastNonopt \/ lastNonopt = top)
  BY <1>1, <1>2 DEF Between
<1>7. Moved(argv, bottom, lastNonopt, top) = argv
  BY <1>2, <1>6, NothingMoves
<1>8. Moved(argv, firstNonopt', optind, optind) = argv
  BY <1>2, <1>6, NothingMoves
<1>9. Sorted' = Sorted
  BY <1>1, <1>4, <1>5, <1>7, <1>8 DEF Sorted
<1>10. Taken' = Taken
  BY <1>1, <1>2, <1>4, <1>5 DEF Taken
<1> QED BY <1>1, <1>3, <1>9, <1>10 DEF Stays

LEMMA SkipReads == GInv /\ OnTheWay /\ SkipNonOption => OnTheWay'
<1> SUFFICES ASSUME GInv, OnTheWay, SkipNonOption PROVE OnTheWay'
  OBVIOUS
<1>1. /\ at = "skip" /\ UNCHANGED <<given, posixlyCorrect, results, argv, ordering, firstNonopt>>
      /\ ordering # None /\ ~posixlyCorrect /\ ~Exchanging /\ Running
  BY DEF SkipNonOption, argVars, resultVars, GInv, Settled, Running, Exchanging
<1>2. /\ firstNonopt \in Nat /\ optind \in Nat /\ argv \in Seq(Elements) /\ given \in Seq(Elements)
      /\ 1 <= firstNonopt /\ firstNonopt <= optind
  BY <1>1 DEF GInv, OInv, InArgv, Ranges, Beginning, Known
<1>3. Low = firstNonopt /\ Lst = optind /\ High = optind /\ Fst = firstNonopt
  BY <1>1 DEF Low, Lst, High, Fst
<1>4. Sorted = argv /\ Taken = firstNonopt - 1 /\ Taken \in Nat /\ Taken < optind
  BY <1>2, <1>3, NothingMoves DEF Sorted, Taken
<1>5. CASE /\ optind < argc /\ NonOption(argv[optind])
           /\ optind' = optind + 1 /\ UNCHANGED <<lastNonopt, at>>
  <2> DEFINE e == given[optind]  next == Read[optind + 1]
  <2>1. optind \in 1..Len(given) /\ argv[optind] = e /\ Len(argv) = Len(given)
    BY <1>1, <1>2, <1>5, HereAsGiven DEF argc
  <2>2. e.kind = "word" /\ e \in Elements
    BY <1>2, <1>5, <2>1, ItemIs DEF NonOption
  <2>3. Ahead = [next EXCEPT !.rest = <<e>> \o @]
    <3>1. Read[optind] = ReadAt(optind, next, Read[optind + 2])
      BY <1>2, <2>1, ReadHere
    <3>2. Read[optind] = [next EXCEPT !.rest = <<e>> \o @]
      BY <1>1, <2>2, <3>1 DEF ReadAt
    <3> QED BY <1>1, <3>2 DEF Ahead
  <2>4. next \in Readings
    BY <1>2, <2>1, ReadHere, ReadTyped
  <2>5. /\ Ahead.results = next.results /\ Ahead.options = next.options
        /\ Ahead.rest = <<e>> \o next.rest
    <3> HIDE DEF next, e
    <3> QED BY <2>3, <2>4 DEF Readings
  <2>6. Ahead' = next /\ Reading' = Reading
    <3>1. Read' = Read /\ Reading' = Reading
      BY <1>1, SameReading
    <3> QED BY <1>1, <1>5, <3>1 DEF Ahead
  <2>7. Low' = firstNonopt /\ Lst' = optind + 1 /\ High' = optind + 1 /\ Fst' = firstNonopt
    BY <1>1, <1>5 DEF Low, Lst, High, Fst, Exchanging
  <2>8. Sorted' = argv /\ Taken' = Taken
    <3>1. Moved(argv, firstNonopt, optind + 1, optind + 1) = argv
      BY <1>2, NothingMoves
    <3>2. Taken' = firstNonopt - 1 + ((optind + 1) - (optind + 1))
      BY <1>5, <2>7 DEF Taken
    <3> QED BY <1>1, <1>2, <1>4, <2>7, <3>1, <3>2 DEF Sorted
  <2>9. OptionsSoFar' = OptionsSoFar /\ RestSoFar' = RestSoFar \o <<e>>
    <3>1. SubSeq(argv, Taken + 1, optind) = SubSeq(argv, Taken + 1, optind - 1) \o <<argv[optind]>>
      BY <1>2, <1>4, <2>1, OneSkipped
    <3>2. /\ OptionsSoFar = SubSeq(argv, 1, Taken) /\ OptionsSoFar' = SubSeq(argv, 1, Taken)
          /\ RestSoFar = SubSeq(argv, Taken + 1, optind - 1)
      BY <1>4, <2>8 DEF OptionsSoFar, RestSoFar
    <3>3. RestSoFar' = SubSeq(argv, Taken + 1, optind)
      <4>1. optind' - 1 = optind
        BY <1>2, <1>5
      <4>2. RestSoFar' = SubSeq(Sorted', Taken' + 1, optind' - 1)
        BY DEF RestSoFar
      <4> QED BY <2>8, <4>1, <4>2
    <3> QED BY <2>1, <3>1, <3>2, <3>3
  <2>10. RestSoFar \o (<<e>> \o next.rest) = (RestSoFar \o <<e>>) \o next.rest
    <3> DEFINE behind == next.rest
    <3> HIDE DEF behind, next, e
    <3>1. RestSoFar \in Seq(Elements) /\ <<e>> \in Seq(Elements) /\ behind \in Seq(Elements)
      BY <1>1, <2>2, <2>4, SoFarIs, Singleton DEF Readings, behind
    <3>2. (RestSoFar \o <<e>>) \o behind = RestSoFar \o (<<e>> \o behind)
      BY <3>1, Associative
    <3> QED BY <3>2 DEF behind
  <2> HIDE DEF next, e
  <2> QED BY <1>1, <2>5, <2>6, <2>9, <2>10 DEF OnTheWay
<1>6. CASE lastNonopt' = optind /\ at' = "dashes" /\ UNCHANGED optind
  <2>1. Low' = Low /\ Lst' = Lst /\ High' = High /\ Fst' = Fst
    BY <1>1, <1>3, <1>6 DEF Low, Lst, High, Fst, Exchanging
  <2>2. Stays
    BY <1>1, <1>6, <2>1 DEF Stays, Sorted, Taken
  <2> QED BY <2>2, StaysReads
<1> QED BY <1>5, <1>6 DEF SkipNonOption

LEMMA DashesRead == GInv /\ OnTheWay /\ DashDash => OnTheWay'
<1> SUFFICES ASSUME GInv, OnTheWay, DashDash PROVE OnTheWay'
  OBVIOUS
<1> DEFINE b == firstNonopt  l == lastNonopt  t == optind
<1>1. /\ at = "dashes" /\ UNCHANGED <<given, posixlyCorrect, results, argv, ordering, lastNonopt>>
      /\ ordering # None /\ ~Exchanging /\ Running
  BY DEF DashDash, argVars, resultVars, GInv, Settled, Running, Exchanging
<1>2. /\ argv \in Seq(Elements) /\ given \in Seq(Elements)
      /\ b \in Nat /\ l \in Nat /\ t \in Nat /\ 1 <= b /\ b <= l /\ l <= t
  BY <1>1 DEF GInv, OInv, InArgv, Ranges, Skipped, Known
<1>3. Low = b /\ Lst = l /\ High = t /\ Fst = b
  BY <1>1 DEF Low, Lst, High, Fst
<1>4. CASE ~AtDashes /\ at' = "scan" /\ UNCHANGED <<optind, firstNonopt, swapVars>>
  <2>1. Low' = Low /\ Lst' = Lst /\ High' = High /\ Fst' = Fst
    BY <1>1, <1>3, <1>4 DEF Low, Lst, High, Fst, Exchanging
  <2>2. Stays
    BY <1>1, <1>4, <2>1 DEF Stays, Sorted, Taken
  <2> QED BY <2>2, StaysReads
<1>5. CASE /\ AtDashes /\ optind' = optind + 1
           /\ \/ /\ firstNonopt # lastNonopt /\ lastNonopt # optind + 1
                 /\ Exchange("exchangeLast", optind + 1) /\ UNCHANGED firstNonopt
              \/ /\ firstNonopt = lastNonopt
                 /\ firstNonopt' = optind + 1
                 /\ at' = "last" /\ UNCHANGED swapVars
  <2> DEFINE e == given[optind]  stop == StopAt(optind + 1)
  <2>1. /\ optind \in 1..Len(given) /\ argv[optind] = e /\ Len(argv) = Len(given)
        /\ optind \in 1..Len(argv) /\ e.kind = "dashes" /\ e \in Elements
    <3>1. optind # argc /\ argv[optind].kind = "dashes"
      BY <1>5 DEF AtDashes
    <3> QED BY <1>1, <3>1, HereAsGiven
  <2>2. Ahead = [stop EXCEPT !.options = <<e>>]
    <3>1. Read[optind] = ReadAt(optind, Read[optind + 1], Read[optind + 2])
      BY <1>2, <2>1, ReadHere
    <3>2. Read[optind] = [stop EXCEPT !.options = <<e>>]
      BY <2>1, <3>1 DEF ReadAt
    <3> QED BY <1>1, <3>2 DEF Ahead
  <2>3. stop \in Readings
    BY <1>2, StopIs
  <2>4. Ahead.results = stop.results /\ Ahead.options = <<e>> /\ Ahead.rest = stop.rest
    <3> HIDE DEF stop, e
    <3> QED BY <2>2, <2>3 DEF Readings
  <2>5. stop.options = <<>>
    BY DEF StopAt
  <2>6. at' \in {"exchangeLast", "last"}
    BY <1>5 DEF Exchange
  <2>7. Ahead' = stop /\ Reading' = Reading
    <3>1. Reading' = Reading
      BY <1>1, SameReading
    <3>2. StopAt(optind)' = stop
      BY <1>1, <1>5 DEF StopAt
    <3> QED BY <2>6, <3>1, <3>2 DEF Ahead
  <2>8. Taken \in Nat /\ Taken = b - 1 + (t - l)
    BY <1>2, <1>3 DEF Taken
  <2>9. Sorted' = Moved(argv, b, l, t + 1) /\ Taken' = Taken + 1
    <3>1. CASE Exchange("exchangeLast", optind + 1) /\ UNCHANGED firstNonopt
      <4>1. Low' = b /\ Lst' = l /\ High' = t + 1 /\ Fst' = b
        BY <1>1, <3>1 DEF Low, Lst, High, Fst, Exchange, Exchanging
      <4>2. Taken' = b - 1 + ((t + 1) - l)
        BY <1>5, <4>1 DEF Taken
      <4> QED BY <1>1, <1>2, <2>8, <4>1, <4>2 DEF Sorted
    <3>2. CASE b = l /\ firstNonopt' = optind + 1 /\ at' = "last"
      <4>1. Low' = t + 1 /\ Lst' = t + 1 /\ High' = t + 1 /\ Fst' = t + 1
        BY <1>1, <1>5, <3>2 DEF Low, Lst, High, Fst, Exchanging
      <4>2. Taken' = (t + 1) - 1 + ((t + 1) - (t + 1))
        BY <1>5, <4>1 DEF Taken
      <4>3. Moved(argv, t + 1, t + 1, t + 1) = argv /\ Moved(argv, b, l, t + 1) = argv
        BY <1>2, <3>2, NothingMoves
      <4>4. Taken' = Taken + 1
        BY <1>2, <2>8, <3>2, <4>2
      <4> QED BY <1>1, <4>1, <4>3, <4>4 DEF Sorted
    <3> QED BY <1>5, <3>1, <3>2
  <2>10. OptionsSoFar' = OptionsSoFar \o <<e>> /\ RestSoFar' = RestSoFar
    <3>1. Grows(argv, b, l, t, 1, Taken)
      <4>1. t + 1 <= Len(argv) + 1 /\ 1 \in Nat
        BY <2>1
      <4> QED BY <1>2, <2>8, <4>1, MoreTaken
    <3>2. t + 1 - 1 = t /\ optind' - 1 = t
      BY <1>2, <1>5
    <3>3. SubSeq(argv, t, t) = <<e>>
      BY <1>2, <2>1, OneIs
    <3>4. /\ SubSeq(Moved(argv, b, l, t + 1), 1, Taken + 1) =
               SubSeq(Moved(argv, b, l, t), 1, Taken) \o <<e>>
          /\ SubSeq(Moved(argv, b, l, t + 1), Taken + 1 + 1, t) =
               SubSeq(Moved(argv, b, l, t), Taken + 1, t - 1)
      <4>1. /\ SubSeq(Moved(argv, b, l, t + 1), 1, Taken + 1) =
                 SubSeq(Moved(argv, b, l, t), 1, Taken) \o SubSeq(argv, t, t + 1 - 1)
            /\ SubSeq(Moved(argv, b, l, t + 1), Taken + 1 + 1, t + 1 - 1) =
                 SubSeq(Moved(argv, b, l, t), Taken + 1, t - 1)
        BY <3>1 DEF Grows
      <4> QED BY <3>2, <3>3, <4>1
    <3>5. Sorted = Moved(argv, b, l, t)
      BY <1>3 DEF Sorted
    <3>6. /\ OptionsSoFar' = SubSeq(Sorted', 1, Taken')
          /\ RestSoFar' = SubSeq(Sorted', Taken' + 1, optind' - 1)
          /\ OptionsSoFar = SubSeq(Sorted, 1, Taken)
          /\ RestSoFar = SubSeq(Sorted, Taken + 1, optind - 1)
      BY DEF OptionsSoFar, RestSoFar
    <3>7. OptionsSoFar' = SubSeq(Moved(argv, b, l, t + 1), 1, Taken + 1)
      BY <2>9, <3>6
    <3>8. RestSoFar' = SubSeq(Moved(argv, b, l, t + 1), Taken + 1 + 1, t)
      BY <2>9, <3>2, <3>6
    <3> QED BY <3>4, <3>5, <3>6, <3>7, <3>8
  <2>11. (OptionsSoFar \o <<e>>) \o <<>> = OptionsSoFar \o <<e>>
    <3>1. OptionsSoFar \in Seq(Elements) /\ <<e>> \in Seq(Elements)
      BY <1>1, <2>1, SoFarIs, Singleton
    <3>2. OptionsSoFar \o <<e>> \in Seq(Elements)
      BY <3>1, JoinIs
    <3> QED BY <3>2, ConcatEmptySeq
  <2> HIDE DEF e, stop
  <2> QED BY <1>1, <2>4, <2>5, <2>7, <2>10, <2>11 DEF OnTheWay
<1> QED BY <1>4, <1>5 DEF DashDash

LEMMA RestReads == GInv /\ OnTheWay /\ TakeRest => OnTheWay'
<1> SUFFICES ASSUME GInv, OnTheWay, TakeRest PROVE OnTheWay'
  OBVIOUS
<1> DEFINE n == Len(given)
<1>1. /\ at = "last" /\ at' = "scan" /\ lastNonopt' = argc /\ optind' = argc
      /\ UNCHANGED <<given, posixlyCorrect, results, argv, ordering, firstNonopt>>
      /\ ordering # None /\ ~Exchanging /\ ~Exchanging' /\ Running /\ Unmoved
  BY DEF TakeRest, argVars, resultVars, GInv, Settled, Running, Exchanging
<1>2. /\ firstNonopt \in Nat /\ optind \in Nat /\ argv \in Seq(Elements) /\ given \in Seq(Elements)
      /\ 1 <= firstNonopt /\ firstNonopt <= optind /\ argc = n + 1 /\ n = Len(argv) /\ n \in Nat
      /\ optind \in 1..(n + 1)
  BY <1>1 DEF GInv, OInv, InArgv, Ranges, Beginning, Known, argc
<1>3. /\ Low = firstNonopt /\ Lst = optind /\ High = optind /\ Fst = firstNonopt
      /\ Low' = firstNonopt /\ Lst' = n + 1 /\ High' = n + 1 /\ Fst' = firstNonopt
  BY <1>1, <1>2 DEF Low, Lst, High, Fst
<1>4. Sorted = argv /\ Taken = firstNonopt - 1 /\ Taken \in Nat /\ Taken < optind
  BY <1>2, <1>3, NothingMoves DEF Sorted, Taken
<1>5. Sorted' = argv /\ Taken' = Taken
  <2>1. Moved(argv, firstNonopt, n + 1, n + 1) = argv
    BY <1>2, NothingMoves
  <2>2. Taken' = firstNonopt - 1 + ((n + 1) - (n + 1))
    BY <1>1, <1>2, <1>3 DEF Taken
  <2> QED BY <1>1, <1>2, <1>3, <1>4, <2>1, <2>2 DEF Sorted
<1>6. Ahead = StopAt(optind) /\ Ahead' = StopAt(n + 1) /\ Reading' = Reading
  <2>1. Read' = Read /\ Reading' = Reading
    BY <1>1, SameReading
  <2>2. Read[n + 1] = StopAt(n + 1)
    BY <1>2, ReadEnd
  <2> QED BY <1>1, <1>2, <2>1, <2>2 DEF Ahead
<1>7. /\ Ahead'.results = Ahead.results /\ Ahead'.options = Ahead.options
      /\ Ahead'.rest = <<>> /\ Ahead.rest = SubSeq(given, optind, n)
  <2>1. SubSeq(given, n + 1, n) = <<>>
    BY <1>2
  <2> QED BY <1>6, <2>1 DEF StopAt
<1>8. SubSeq(argv, optind, n) = SubSeq(given, optind, n)
  <2>1. \A k \in optind..n : argv[k] = given[k]
    BY <1>1, <1>2 DEF Unmoved
  <2> QED BY <1>2, <2>1, SameSlice
<1>9. OptionsSoFar' = OptionsSoFar /\ RestSoFar' = RestSoFar \o SubSeq(given, optind, n)
  <2>1. SubSeq(argv, Taken + 1, n) = SubSeq(argv, Taken + 1, optind - 1) \o SubSeq(argv, optind, n)
    BY <1>2, <1>4, AllSkipped
  <2>2. /\ OptionsSoFar = SubSeq(argv, 1, Taken) /\ OptionsSoFar' = SubSeq(argv, 1, Taken)
        /\ RestSoFar = SubSeq(argv, Taken + 1, optind - 1)
    BY <1>4, <1>5 DEF OptionsSoFar, RestSoFar
  <2>3. RestSoFar' = SubSeq(argv, Taken + 1, n)
    <3>1. optind' - 1 = n
      BY <1>1, <1>2
    <3>2. RestSoFar' = SubSeq(Sorted', Taken' + 1, optind' - 1)
      BY DEF RestSoFar
    <3> QED BY <1>5, <3>1, <3>2
  <2> QED BY <1>8, <2>1, <2>2, <2>3
<1>10. (RestSoFar \o SubSeq(given, optind, n)) \o <<>> = RestSoFar \o SubSeq(given, optind, n)
  <2>1. RestSoFar \in Seq(Elements)
    BY <1>1, SoFarIs
  <2>2. SubSeq(given, optind, n) \in Seq(Elements)
    BY <1>2, PartIs
  <2>3. RestSoFar \o SubSeq(given, optind, n) \in Seq(Elements)
    BY <2>1, <2>2, JoinIs
  <2> QED BY <2>3, ConcatEmptySeq
<1> QED BY <1>1, <1>6, <1>7, <1>9, <1>10 DEF OnTheWay

-----------------------------------------------------------------------------
(* The end of the reading.                                                 *)
LEMMA RefusedReads == GInv /\ OnTheWay /\ Refused => Done'
<1> SUFFICES ASSUME GInv, OnTheWay, Refused PROVE Done'
  OBVIOUS
<1>1. /\ ret' = "?" /\ results' = Append(results, <<"?", None>>) /\ at = "scan"
      /\ UNCHANGED <<given, posixlyCorrect>>
      /\ Read[optind] = Refusal /\ results \in Seq(Outs)
  BY DEF Refused, argVars, GInv, Known
<1>2. Reading' = Reading
  BY <1>1, SameReading
<1>3. Ahead.results = <<<<"?", None>>>>
  BY <1>1 DEF Ahead, Refusal
<1>4. Append(results, <<"?", None>>) = results \o <<<<"?", None>>>>
  <2>1. <<"?", None>> \in Outs
    BY DEF Outs, Words, Args
  <2> QED BY <1>1, <2>1, AppendIsConcat
<1>5. results' = Reading.results
  BY <1>1, <1>3, <1>4 DEF OnTheWay
<1> QED BY <1>1, <1>2, <1>5 DEF Done

LEMMA EndReads == GInv /\ OnTheWay /\ EndOfOptions => Done'
<1> SUFFICES ASSUME GInv, OnTheWay, EndOfOptions PROVE Done'
  OBVIOUS
<1> DEFINE n == Len(given)
<1>1. /\ at = "scan" /\ ret' = "end" /\ results' = Append(results, <<"end", None>>)
      /\ UNCHANGED <<given, posixlyCorrect, argv>>
      /\ ordering # None /\ ~Exchanging /\ Running /\ Unmoved /\ Settled /\ results \in Seq(Outs)
  BY DEF EndOfOptions, Return, argVars, GInv, Known, Settled, Running, Exchanging
<1>2. /\ firstNonopt \in Nat /\ lastNonopt \in Nat /\ optind \in Nat /\ argv \in Seq(Elements)
      /\ given \in Seq(Elements) /\ argc = n + 1 /\ n = Len(argv) /\ n \in Nat
      /\ optind \in 1..(n + 1)
      /\ 1 <= firstNonopt /\ firstNonopt <= lastNonopt /\ lastNonopt <= optind
  BY <1>1 DEF GInv, OInv, InArgv, Ranges, Skipped, Known, argc
<1>3. Low = firstNonopt /\ Lst = lastNonopt /\ High = optind /\ Fst = firstNonopt
  BY <1>1 DEF Low, Lst, High, Fst
<1>4. Taken = firstNonopt - 1 + (optind - lastNonopt)
  BY <1>3 DEF Taken
<1>5. firstNonopt = lastNonopt \/ lastNonopt = optind
  BY <1>1 DEF Settled
<1>6. Sorted = argv
  BY <1>2, <1>3, <1>5, NothingMoves DEF Sorted
<1>7. /\ OptionsSoFar \in Seq(Elements) /\ RestSoFar \in Seq(Elements)
      /\ Len(OptionsSoFar) = Taken
      /\ OptionsSoFar \o RestSoFar = SubSeq(argv, 1, optind - 1)
  BY <1>1, <1>6, SoFarIs
<1>8. Reading' = Reading
  BY <1>1, SameReading
<1>9. /\ Ahead = StopAt(optind)
      /\ optind' = Taken + 1
  <2>1. CASE /\ optind = argc
             /\ optind' = IF firstNonopt # lastNonopt THEN firstNonopt ELSE optind
    <3>1. Ahead = StopAt(optind)
      BY <1>1, <1>2, <2>1, ReadEnd DEF Ahead
    <3>2. optind' = Taken + 1
      BY <1>2, <1>4, <1>5, <2>1
    <3> QED BY <3>1, <3>2
  <2>2. CASE /\ optind # argc /\ NonOption(argv[optind])
             /\ ordering = "REQUIRE_ORDER" /\ UNCHANGED optind
    <3>1. posixlyCorrect
      BY <1>1, <2>2 DEF Settled, Order
    <3>2. firstNonopt = lastNonopt
      BY <1>1, <2>2, <3>1 DEF Settled
    <3>3. optind \in 1..Len(given) /\ given[optind].kind = "word"
      BY <1>1, <2>2, HereAsGiven DEF NonOption
    <3>4. Read[optind] = ReadAt(optind, Read[optind + 1], Read[optind + 2])
      BY <1>2, <3>3, ReadHere
    <3>5. Read[optind] = StopAt(optind)
      BY <3>1, <3>3, <3>4 DEF ReadAt
    <3>6. optind' = Taken + 1
      BY <1>2, <1>4, <2>2, <3>2
    <3> QED BY <1>1, <3>5, <3>6 DEF Ahead
  <2> QED BY <2>1, <2>2 DEF EndOfOptions
<1>10. /\ Ahead.results = <<<<"end", None>>>> /\ Ahead.options = <<>>
       /\ Ahead.rest = SubSeq(given, optind, n)
  BY <1>9 DEF StopAt
<1>11. results' = Reading.results
  <2>1. <<"end", None>> \in Outs
    BY DEF Outs, Words, Args
  <2>2. Append(results, <<"end", None>>) = results \o <<<<"end", None>>>>
    BY <1>1, <2>1, AppendIsConcat
  <2> QED BY <1>1, <1>10, <2>2 DEF OnTheWay
<1>12. Reading.options = OptionsSoFar
  BY <1>7, <1>10, ConcatEmptySeq DEF OnTheWay
<1>13. SubSeq(given, optind, n) = SubSeq(argv, optind, n)
  <2>1. \A k \in optind..n : argv[k] = given[k]
    BY <1>1, <1>2 DEF Unmoved
  <2> QED BY <1>2, <2>1, SameSlice
<1>14. OptionsSoFar \o (RestSoFar \o SubSeq(argv, optind, n)) = argv
  <2>1. SubSeq(argv, optind, n) \in Seq(Elements)
    BY <1>2, PartIs
  <2>2. OptionsSoFar \o (RestSoFar \o SubSeq(argv, optind, n)) =
          SubSeq(argv, 1, optind - 1) \o SubSeq(argv, optind, n)
    <3> DEFINE behind == SubSeq(argv, optind, n)
    <3> HIDE DEF behind
    <3>1. behind \in Seq(Elements) /\ OptionsSoFar \in Seq(Elements) /\ RestSoFar \in Seq(Elements)
      BY <1>7, <2>1 DEF behind
    <3>2. (OptionsSoFar \o RestSoFar) \o behind = OptionsSoFar \o (RestSoFar \o behind)
      BY <3>1, Associative
    <3> QED BY <1>7, <3>2 DEF behind
  <2>3. SubSeq(argv, 1, optind - 1) \o SubSeq(argv, optind, n) = SubSeq(argv, 1, n)
    <3>1. /\ 1 \in 1..(Len(argv) + 1) /\ optind - 1 \in (1 - 1)..Len(argv)
          /\ n \in (optind - 1)..Len(argv) /\ (optind - 1) + 1 = optind
      BY <1>2
    <3> QED BY <1>2, <3>1, ConcatAdjacentSubSeq
  <2>4. SubSeq(argv, 1, n) = argv
    BY <1>2, SubSeqFull
  <2> QED BY <2>2, <2>3, <2>4
<1>15. argv' = Reading.options \o Reading.rest
  BY <1>1, <1>10, <1>12, <1>13, <1>14 DEF OnTheWay
<1>16. optind' = Len(Reading.options) + 1
  BY <1>7, <1>9, <1>12
<1> QED BY <1>8, <1>11, <1>15, <1>16 DEF Done

-----------------------------------------------------------------------------
ReadingInv == GInv /\ (Running => OnTheWay) /\ (~Running => Done)

LEMMA InitReads ==
  ASSUME NEW args \in Seq(Elements), NEW posix, GetoptInit(args, posix)
  PROVE  ReadingInv
<1>1. /\ given \in Seq(Elements) /\ argv = given /\ at = "caller" /\ ret = None /\ results = <<>>
      /\ ordering = None /\ optind = 1 /\ Len(given) \in Nat
  BY DEF GetoptInit
<1>2. OInv /\ Running
  BY <1>1, InitRanges, TableAssumption DEF Running
<1>3. results \in Seq(Outs)
  BY <1>1
<1>4. GInv
  BY <1>1, <1>2, <1>3 DEF GInv, Known, Settled, Unmoved
<1>5. /\ Fst = 1 /\ Lst = 1 /\ Low = 1 /\ High = 1 /\ Taken = 0 /\ optind - 1 = 0 /\ Taken + 1 = 1
  BY <1>1 DEF Fst, Lst, Low, High, Taken, Exchanging
<1>6. OptionsSoFar = <<>> /\ RestSoFar = <<>>
  <2>1. \A q : SubSeq(q, 1, 0) = <<>>
    OBVIOUS
  <2> QED BY <1>5, <2>1 DEF OptionsSoFar, RestSoFar
<1>7. Ahead = Reading /\ Reading \in Readings
  <2>1. 1 \in 1..End
    BY <1>1 DEF End
  <2>2. Read[1] \in Readings
    BY <1>1, <2>1, ReadTyped
  <2> QED BY <1>1, <2>2 DEF Ahead, Reading
<1>8. OnTheWay
  <2>1. /\ Reading.results \in Seq(Outs) /\ Reading.options \in Seq(Elements)
        /\ Reading.rest \in Seq(Elements)
    BY <1>7 DEF Readings
  <2>2. /\ <<>> \o Reading.results = Reading.results /\ <<>> \o Reading.options = Reading.options
        /\ <<>> \o Reading.rest = Reading.rest
    BY <2>1, ConcatEmptySeq
  <2> QED BY <1>1, <1>6, <1>7, <2>2 DEF OnTheWay
<1> QED BY <1>2, <1>4, <1>8 DEF ReadingInv

LEMMA StutterReads == ReadingInv /\ UNCHANGED getoptVars => ReadingInv'
<1> SUFFICES ASSUME ReadingInv, UNCHANGED getoptVars PROVE ReadingInv'
  OBVIOUS
<1>1. /\ UNCHANGED <<given, argv, posixlyCorrect, ordering, optind, firstNonopt, lastNonopt>>
      /\ UNCHANGED <<bottom, top, ret, at, results>>
  BY DEF getoptVars, argVars, rangeVars, swapVars, resultVars
<1>2. GInv'
  <2>1. OInv'
    BY SameRanges DEF ReadingInv, GInv
  <2>2. Known' /\ (Running' <=> Running)
    BY <1>1 DEF ReadingInv, GInv, Known, Running
  <2>3. Settled => Settled'
    BY <1>1 DEF Settled, Order, argc
  <2>4. Unmoved => Unmoved'
    BY <1>1 DEF Unmoved
  <2> QED BY <2>1, <2>2, <2>3, <2>4 DEF ReadingInv, GInv
<1>3. Stays
  BY <1>1 DEF Stays, Sorted, Taken, Low, Lst, High, Fst, Exchanging
<1>4. Reading' = Reading /\ (Running' <=> Running)
  BY <1>1, SameReading DEF Running
<1>5. Done => Done'
  BY <1>1, <1>4 DEF Done
<1> QED BY <1>2, <1>3, <1>4, <1>5, StaysReads DEF ReadingInv

LEMMA NextReads == ReadingInv /\ [Call \/ GetoptStep]_getoptVars => ReadingInv'
<1> SUFFICES ASSUME ReadingInv, Call \/ GetoptStep PROVE ReadingInv'
  BY StutterReads
<1>1. GInv /\ Running /\ OnTheWay /\ OInv'
  <2>1. Running
    BY DEF GetoptStep, Running, Call, Permute, SwapBottom, SwapTop, Exchanged, Exchanging,
           SkipNonOption, DashDash, TakeRest, EndOfOptions, RefuseOption, InlineArgument,
           NextArgument, PlainOption, ShortOption, AtLong
  <2> QED BY <2>1, NextRanges DEF ReadingInv, GInv
<1>2. CASE Call
  <2>1. Running'
    BY <1>2 DEF Call, Running, Order
  <2> QED BY <1>1, <1>2, <2>1, CallSettled, CallStays, StaysReads DEF ReadingInv
<1>3. CASE Permute \/ SwapBottom \/ SwapTop \/ Exchanged \/ SkipNonOption \/ DashDash \/ TakeRest
  <2>1. Running'
    BY <1>3 DEF Running, Permute, Exchange, SwapBottom, SwapTop, Exchanged, Exchanging,
                SkipNonOption, DashDash, TakeRest
  <2>2. GInv'
    BY <1>1, <1>3, SwapSettled, ScanSettled
  <2>3. OnTheWay'
    BY <1>1, <1>3, PermuteStays, SwapStays, ExchangedStays, StaysReads, SkipReads,
       DashesRead, RestReads
  <2> QED BY <2>1, <2>2, <2>3 DEF ReadingInv
<1>4. CASE EndOfOptions
  <2>1. ~Running' /\ Done'
    BY <1>1, <1>4, EndReads DEF EndOfOptions, Return, Running
  <2>2. results' \in Seq(Outs)
    <3>1. "end" \in Words /\ None \in Args /\ results' = Append(results, <<"end", None>>)
      BY <1>4 DEF Words, Args, EndOfOptions, Return
    <3> QED BY <1>1, <3>1, ResultsStay
  <2>3. GInv'
    BY <1>1, <1>4, <2>1, <2>2 DEF GInv, Known, EndOfOptions, argVars
  <2> QED BY <2>1, <2>3 DEF ReadingInv
<1>5. CASE RefuseOption \/ ShortOption \/ InlineArgument \/ NextArgument \/ PlainOption
  <2>1. Refused \/ \E m \in {1, 2}, val \in Words, arg \in Args : Takes(m, val, arg)
    BY <1>1, <1>5, RefuseOutcome, ShortOutcome, KnownOutcome
  <2>2. CASE Refused
    <3>1. ~Running'
      BY <2>2 DEF Refused, Running
    <3> QED BY <1>1, <2>2, <3>1, RefusedSettled, RefusedReads DEF ReadingInv
  <2>3. ASSUME NEW m \in {1, 2}, NEW val \in Words, NEW arg \in Args, Takes(m, val, arg)
        PROVE  ReadingInv'
    <3>1. Running'
      BY <2>3 DEF Takes, Running
    <3>2. GInv'
      BY <1>1, <2>3, TakesSettled
    <3>3. OnTheWay'
      BY <1>1, <2>3, TakesReads
    <3> QED BY <3>1, <3>2, <3>3 DEF ReadingInv
  <2> QED BY <2>1, <2>2, <2>3
<1> QED BY <1>2, <1>3, <1>4, <1>5 DEF GetoptStep

LEMMA ReadSoFar == ReadingInv => ReadsAsWritten /\ OptionsFirst
<1> SUFFICES ASSUME ReadingInv PROVE ReadsAsWritten /\ OptionsFirst
  OBVIOUS
<1>1. CASE ~Running
  <2>1. /\ at = "caller" /\ ret \in {"end", "?"}
        /\ results = Reading.results /\ results \in Seq(Outs)
        /\ ret = "end" =>
             argv = Reading.options \o Reading.rest /\ optind = Len(Reading.options) + 1
    BY <1>1 DEF ReadingInv, Done, Running, GInv, Known
  <2>2. Len(results) \in Nat /\ Len(results) <= Len(results)
    BY <2>1
  <2>3. ReadsAsWritten
    <3> DEFINE whole == Reading.results
    <3>1. results = whole
      BY <2>1
    <3> HIDE DEF whole
    <3>2. /\ Len(results) <= Len(whole) /\ \A i \in 1..Len(results) : results[i] = whole[i]
          /\ Len(results) = Len(whole)
      BY <2>2, <3>1
    <3> QED BY <3>2 DEF ReadsAsWritten, whole
  <2>4. OptionsFirst
    BY <2>1, Zenon DEF OptionsFirst
  <2> QED BY <2>3, <2>4
<1>2. CASE Running
  <2>1. OptionsFirst
    BY <1>2 DEF OptionsFirst, Running
  <2>2. ASSUME at = "caller"
        PROVE  LET whole == Reading.results
               IN  Len(results) <= Len(whole) /\ \A i \in 1..Len(results) : results[i] = whole[i]
    <3> DEFINE later == Ahead.results
    <3>1. Reading.results = results \o later /\ results \in Seq(Outs)
      BY <1>2 DEF ReadingInv, OnTheWay, GInv, Known
    <3>2. later \in Seq(Outs)
      <4>1. given \in Seq(Elements) /\ optind \in 1..End
        BY DEF ReadingInv, GInv, Known, OInv, InArgv, argc, End
      <4> QED BY <2>2, <4>1, ReadTyped DEF Ahead, Readings
    <3> HIDE DEF later
    <3>3. /\ Len(results \o later) = Len(results) + Len(later)
          /\ \A i \in 1..(Len(results) + Len(later)) :
               (results \o later)[i] =
                 IF i <= Len(results) THEN results[i] ELSE later[i - Len(results)]
      BY <3>1, <3>2, ConcatProperties
    <3>4. Len(results) \in Nat /\ Len(later) \in Nat
      BY <3>1, <3>2
    <3>5. \A i \in 1..Len(results) : i \in 1..(Len(results) + Len(later)) /\ i <= Len(results)
      BY <3>4
    <3> QED BY <3>1, <3>3, <3>4, <3>5
  <2>3. at = "caller" => ret \notin {"end", "?"}
    BY <1>2 DEF Running
  <2> QED BY <2>1, <2>2, <2>3 DEF ReadsAsWritten
<1> QED BY <1>1, <1>2

(* Every command line is read as it is written: one after the other its    *)
(* options come back, each with its argument, however argv is permuted.    *)
THEOREM ReadsEveryLine == GetoptSpec => []ReadsAsWritten
<1>1. (\E args \in Seq(Elements), posix \in BOOLEAN : GetoptInit(args, posix)) => ReadingInv
  BY InitReads
<1>2. ReadingInv /\ [Call \/ GetoptStep]_getoptVars => ReadingInv'
  BY NextReads
<1>3. ReadingInv => ReadsAsWritten
  BY ReadSoFar
<1> QED BY <1>1, <1>2, <1>3, PTL DEF GetoptSpec

(* After the last option argv holds the options and then the other words,  *)
(* in the order of the command line.                                       *)
THEOREM OptionsComeFirst == GetoptSpec => []OptionsFirst
<1>1. (\E args \in Seq(Elements), posix \in BOOLEAN : GetoptInit(args, posix)) => ReadingInv
  BY InitReads
<1>2. ReadingInv /\ [Call \/ GetoptStep]_getoptVars => ReadingInv'
  BY NextReads
<1>3. ReadingInv => OptionsFirst
  BY ReadSoFar
<1> QED BY <1>1, <1>2, <1>3, PTL DEF GetoptSpec

LEMMA MainReads == Spec => []ReadingInv
<1>1. Init => ReadingInv
  BY ScenarioAssumption, InitReads DEF Init
<1>2. [Next]_vars => [Call \/ GetoptStep]_getoptVars
  BY OptionsCallGetopt, StartupLeavesGetopt, InspectLeavesGetopt, RunModeLeavesGetopt
     DEF Next, vars
<1>3. ReadingInv /\ [Next]_vars => ReadingInv'
  BY <1>2, NextReads
<1> QED BY <1>1, <1>3, PTL DEF Spec

(* main gets the options of every command line as they are written.        *)
THEOREM MainReadsEveryLine == Spec => []ReadsAsWritten
<1>1. ReadingInv => ReadsAsWritten
  BY ReadSoFar
<1> QED BY <1>1, MainReads, PTL

(* main finds the options before the other words, at optind.               *)
THEOREM MainOptionsFirst == Spec => []OptionsFirst
<1>1. ReadingInv => OptionsFirst
  BY ReadSoFar
<1> QED BY <1>1, MainReads, PTL
-----------------------------------------------------------------------------
(* The loop over the options: after n results each variable is what these  *)
(* ask for.  The parts of SetBy, of any values of the variables.           *)
Values == Plain \cup {"SearchPathType"}
Final(q, n, v, i) == i \in Given(q, n, {v}) /\ \A j \in Given(q, n, {v}) : j <= i
ValueBy(s, q, n, v) ==
  \/ Given(q, n, {v}) = {} /\ s[v] = Defaults[v]
  \/ \E i \in 1..n : Final(q, n, v, i) /\ s[v] = q[i][2]
ValuesBy(s, q, n) ==
  /\ s = [v \in Values \cup {"Package", "Verbose"} |-> s[v]]
  /\ \A v \in Values : ValueBy(s, q, n, v)
  /\ s["Verbose"] # <<>> <=> Given(q, n, {"Verbose"}) # {}
ModeBy(m, s, q, n) ==
  /\ m \in Modes \cup {"NoMode"}
  /\ \A i, j \in Given(q, n, Modes) : i = j
  /\ m = "NoMode" <=> Given(q, n, Modes) = {}
  /\ \A i \in Given(q, n, Modes) :
       m = q[i][1] /\ (m \in {"SearchPath", "Install"} => s["Package"] = q[i][2])
Extra(q, n) == Given(q, n, {"PackageExtraDirectory"})
Place(q, n, i) == Cardinality({j \in Extra(q, n) : j <= i})
ExtraBy(x, q, n) ==
  /\ x \in Seq(Args) /\ Len(x) = Cardinality(Extra(q, n))
  /\ \A i \in Extra(q, n) : x[Place(q, n, i)] = q[i][2]
AllBy(s, m, x, q, n) == ValuesBy(s, q, n) /\ ModeBy(m, s, q, n) /\ ExtraBy(x, q, n)

LEMMA ValueIsLast ==
  ASSUME NEW n \in Nat, NEW q, NEW s, NEW v, ValueBy(s, q, n, v)
  PROVE  s[v] = LastOf(q, n, v)
<1> DEFINE G == Given(q, n, {v})
           l == CHOOSE i \in G : \A j \in G : j <= i
<1>1. CASE G = {}
  <2>1. \A i : ~Final(q, n, v, i)
    BY <1>1 DEF Final
  <2> QED BY <1>1, <2>1 DEF ValueBy, LastOf
<1>2. CASE G # {}
  <2>1. PICK k \in G : (\A j \in G : j <= k) /\ s[v] = q[k][2]
    BY <1>2 DEF ValueBy, Final
  <2>2. l \in G /\ \A j \in G : j <= l
    BY <2>1, Zenon
  <2>3. k <= l /\ l <= k /\ k \in Nat /\ l \in Nat
    BY <2>1, <2>2 DEF Given
  <2>4. l = k
    BY <2>3
  <2>5. LastOf(q, n, v) = q[l][2]
    BY <1>2, Zenon DEF LastOf
  <2> QED BY <2>1, <2>4, <2>5
<1> QED BY <1>1, <1>2

LEMMA AllIsSet ==
  ASSUME NEW n \in Nat, NEW q, AllBy(settings, mode, extraPackageDirs, q, n) PROVE SetBy(q, n)
<1>1. \A v \in Values : settings[v] = LastOf(q, n, v)
  BY ValueIsLast DEF AllBy, ValuesBy
<1>2. settings.Verbose # <<>> <=> Given(q, n, {"Verbose"}) # {}
  BY DEF AllBy, ValuesBy
<1>3. /\ \A i, j \in Given(q, n, Modes) : i = j
      /\ mode = "NoMode" <=> Given(q, n, Modes) = {}
      /\ \A i \in Given(q, n, Modes) :
          /\ mode = q[i][1]
          /\ mode \in {"SearchPath", "Install"} => settings.Package = q[i][2]
  BY DEF AllBy, ModeBy
<1>4. LET extra == Given(q, n, {"PackageExtraDirectory"}) IN
       /\ Len(extraPackageDirs) = Cardinality(extra)
       /\ \A i \in extra :
            extraPackageDirs[Cardinality({j \in extra : j <= i})] = q[i][2]
  BY DEF AllBy, ExtraBy, Extra, Place
<1> QED BY <1>1, <1>2, <1>3, <1>4, Zenon DEF SetBy, Values

(* Only the first n results count.                                         *)
Agree(q, r, n) == \A i \in 1..n : q[i] = r[i]
LEMMA SameGiven ==
  ASSUME NEW n \in Nat, NEW q, NEW r, Agree(q, r, n), NEW S
  PROVE  Given(q, n, S) = Given(r, n, S) /\ \A i \in Given(r, n, S) : q[i] = r[i]
BY DEF Given, Agree

LEMMA SameBy ==
  ASSUME NEW n \in Nat, NEW q, NEW r, Agree(q, r, n),
         NEW s, NEW m, NEW x, AllBy(s, m, x, q, n)
  PROVE  AllBy(s, m, x, r, n)
<1>1. \A S : Given(q, n, S) = Given(r, n, S) /\ \A i \in Given(r, n, S) : q[i] = r[i]
  BY SameGiven
<1>2. ValuesBy(s, r, n)
  BY <1>1 DEF AllBy, ValuesBy, ValueBy, Final, Agree
<1>3. ModeBy(m, s, r, n)
  BY <1>1 DEF AllBy, ModeBy
<1>4. ExtraBy(x, r, n)
  BY <1>1 DEF AllBy, ExtraBy, Extra, Place
<1> QED BY <1>2, <1>3, <1>4 DEF AllBy

(* One result more.                                                        *)
OneMore(q, n, S) ==
  /\ Given(q, n, S) \subseteq 1..n
  /\ q[n + 1][1] \in S => Given(q, n + 1, S) = Given(q, n, S) \cup {n + 1}
  /\ q[n + 1][1] \notin S => Given(q, n + 1, S) = Given(q, n, S)

LEMMA GivenMore == ASSUME NEW n \in Nat, NEW q, NEW S PROVE OneMore(q, n, S)
<1>1. 1..(n + 1) = 1..n \cup {n + 1}
  OBVIOUS
<1> QED BY <1>1 DEF OneMore, Given

LEMMA ValueMore ==
  ASSUME NEW n \in Nat, NEW q, NEW s, NEW t, NEW v, ValueBy(s, q, n, v),
         t[v] = IF q[n + 1][1] = v THEN q[n + 1][2] ELSE s[v]
  PROVE  ValueBy(t, q, n + 1, v)
<1> DEFINE G == Given(q, n, {v})  H == Given(q, n + 1, {v})
<1>1. G \subseteq 1..n /\ H = IF q[n + 1][1] = v THEN G \cup {n + 1} ELSE G
  <2>1. OneMore(q, n, {v})
    BY GivenMore
  <2> QED BY <2>1 DEF OneMore
<1>2. CASE q[n + 1][1] = v
  <2> HIDE DEF G, H
  <2>1. n + 1 \in H /\ \A j \in H : j <= n + 1
    BY <1>1, <1>2
  <2>2. n + 1 \in 1..(n + 1)
    OBVIOUS
  <2>3. Final(q, n + 1, v, n + 1)
    BY <2>1 DEF Final, H
  <2> QED BY <1>2, <2>2, <2>3 DEF ValueBy
<1>3. CASE q[n + 1][1] # v
  <2>1. G = H /\ t[v] = s[v] /\ 1..n \subseteq 1..(n + 1)
    BY <1>1, <1>3
  <2>2. \A i : Final(q, n, v, i) => Final(q, n + 1, v, i)
    BY <2>1 DEF Final
  <2> QED BY <2>1, <2>2 DEF ValueBy
<1> QED BY <1>2, <1>3

(* The variables s become t when the result after the first n is handled.  *)
OneOption(s, t, q, n) ==
  /\ t = [v \in Values \cup {"Package", "Verbose"} |-> t[v]]
  /\ \A v \in Values : t[v] = IF q[n + 1][1] = v THEN q[n + 1][2] ELSE s[v]
  /\ t["Verbose"] = IF q[n + 1][1] = "Verbose" THEN <<"true">> ELSE s["Verbose"]

LEMMA ValuesMore ==
  ASSUME NEW n \in Nat, NEW q, NEW s, NEW t, ValuesBy(s, q, n), OneOption(s, t, q, n)
  PROVE  ValuesBy(t, q, n + 1)
<1> USE DEF OneOption
<1>1. \A v \in Values : ValueBy(t, q, n + 1, v)
  BY ValueMore DEF ValuesBy
<1>2. <<"true">> # <<>>
  OBVIOUS
<1>3. t["Verbose"] # <<>> <=> Given(q, n + 1, {"Verbose"}) # {}
  <2>1. OneMore(q, n, {"Verbose"})
    BY GivenMore
  <2>2. s["Verbose"] # <<>> <=> Given(q, n, {"Verbose"}) # {}
    BY DEF ValuesBy
  <2> QED BY <1>2, <2>1, <2>2 DEF OneMore
<1> QED BY <1>1, <1>3 DEF ValuesBy

LEMMA ModeMore ==
  ASSUME NEW n \in Nat, NEW q, NEW s, NEW t, NEW m, ModeBy(m, s, q, n),
         q[n + 1][1] \notin Modes, t["Package"] = s["Package"]
  PROVE  ModeBy(m, t, q, n + 1)
<1>1. OneMore(q, n, Modes)
  BY GivenMore
<1> QED BY <1>1 DEF OneMore, ModeBy

LEMMA ModeFirst ==
  ASSUME NEW n \in Nat, NEW q, NEW s, NEW t, ModeBy("NoMode", s, q, n),
         q[n + 1][1] \in Modes,
         q[n + 1][1] # "PackageList" => t["Package"] = q[n + 1][2]
  PROVE  ModeBy(q[n + 1][1], t, q, n + 1)
<1>1. Given(q, n, Modes) = {}
  BY DEF ModeBy
<1>2. Given(q, n + 1, Modes) = {n + 1}
  <2>1. OneMore(q, n, Modes)
    BY GivenMore
  <2> QED BY <1>1, <2>1 DEF OneMore
<1> QED BY <1>2 DEF ModeBy, Modes

LEMMA ExtraSame ==
  ASSUME NEW n \in Nat, NEW q, NEW x, ExtraBy(x, q, n), q[n + 1][1] # "PackageExtraDirectory"
  PROVE  ExtraBy(x, q, n + 1)
<1>1. Extra(q, n + 1) = Extra(q, n)
  <2>1. OneMore(q, n, {"PackageExtraDirectory"})
    BY GivenMore
  <2> QED BY <2>1 DEF OneMore, Extra
<1> QED BY <1>1 DEF ExtraBy, Place

LEMMA ExtraMore ==
  ASSUME NEW n \in Nat, NEW q, NEW x, ExtraBy(x, q, n),
         q[n + 1][1] = "PackageExtraDirectory", q[n + 1][2] \in Args
  PROVE  ExtraBy(Append(x, q[n + 1][2]), q, n + 1)
<1> DEFINE E == Extra(q, n)  F == Extra(q, n + 1)  a == q[n + 1][2]
           Upto(S, i) == {j \in S : j <= i}
<1>1. E \subseteq 1..n /\ F = E \cup {n + 1}
  <2>1. OneMore(q, n, {"PackageExtraDirectory"})
    BY GivenMore
  <2> QED BY <2>1 DEF OneMore, Extra
<1>2. IsFiniteSet(E) /\ Cardinality(E) \in Nat /\ IsFiniteSet(1..n)
  <2>1. IsFiniteSet(1..n)
    BY FS_Interval
  <2>2. E \in SUBSET (1..n)
    BY <1>1
  <2> HIDE DEF E
  <2>3. IsFiniteSet(E)
    BY <2>1, <2>2, FS_Subset
  <2> QED BY <2>1, <2>3, FS_CardinalityType
<1>3. n + 1 \notin E
  BY <1>1
<1>4. Cardinality(F) = Cardinality(E) + 1
  BY <1>1, <1>2, <1>3, FS_AddElement
<1>5. x \in Seq(Args) /\ Len(x) = Cardinality(E) /\ \A i \in E : x[Place(q, n, i)] = q[i][2]
  BY DEF ExtraBy
<1>6. /\ Append(x, a) \in Seq(Args) /\ Len(Append(x, a)) = Cardinality(F)
      /\ Append(x, a)[Cardinality(F)] = a
      /\ \A k \in 1..Cardinality(E) : Append(x, a)[k] = x[k]
  BY <1>2, <1>4, <1>5
<1>7. Place(q, n + 1, n + 1) = Cardinality(F)
  <2>1. Upto(F, n + 1) = F
    BY <1>1
  <2> QED BY <2>1 DEF Place
<1>8. ASSUME NEW i \in E PROVE Append(x, a)[Place(q, n + 1, i)] = q[i][2]
  <2>1. Upto(F, i) = Upto(E, i)
    BY <1>1
  <2>2. Place(q, n + 1, i) = Place(q, n, i) /\ Place(q, n, i) = Cardinality(Upto(E, i))
    BY <2>1 DEF Place
  <2>3. Upto(E, i) \in SUBSET E /\ Upto(E, i) # {}
    BY <1>1
  <2> HIDE DEF Upto, E
  <2>4. IsFiniteSet(Upto(E, i)) /\ Cardinality(Upto(E, i)) <= Cardinality(E)
    BY <1>2, <2>3, FS_Subset
  <2>5. Cardinality(Upto(E, i)) \in Nat /\ Cardinality(Upto(E, i)) # 0
    BY <2>3, <2>4, FS_EmptySet, FS_CardinalityType
  <2>6. Place(q, n, i) \in 1..Cardinality(E)
    BY <1>2, <2>2, <2>4, <2>5
  <2> QED BY <1>5, <1>6, <2>2, <2>6
<1>9. \A i \in F : Append(x, a)[Place(q, n + 1, i)] = q[i][2]
  BY <1>1, <1>6, <1>7, <1>8
<1> QED BY <1>6, <1>9 DEF ExtraBy

-----------------------------------------------------------------------------
(* What main has handled: all that getopt_long has returned, but for the   *)
(* option that is being handled.                                           *)
Choosing == pc \in {"next", "options", "paths"}
Handling == pc = "options" /\ at = "caller"
Seen == IF Handling THEN Len(results) - 1 ELSE Len(results)
SetInv ==
  /\ Choosing => AllBy(settings, mode, extraPackageDirs, results, Seen)
  /\ Handling => results # <<>> /\ results[Len(results)] = <<ret, optarg>>
  /\ pc = "paths" => at = "caller" /\ ret = "end"

LEMMA InitSet == Init => SetInv
<1> SUFFICES ASSUME Init PROVE SetInv
  OBVIOUS
<1>1. results = <<>> /\ Len(results) = 0 /\ Seen = 0 /\ ~Handling /\ pc = "next"
  BY DEF Init, GetoptInit, Seen, Handling
<1>2. \A q, S : Given(q, 0, S) = {}
  BY DEF Given
<1>3. ValuesBy(settings, results, 0)
  <2>1. settings = Defaults /\ Defaults["Verbose"] = <<>>
    BY DEF Init, Defaults, Plain
  <2>2. settings = [v \in Values \cup {"Package", "Verbose"} |-> settings[v]]
    <3>1. Plain \cup {"SearchPathType", "Package", "Verbose"} = Values \cup {"Package", "Verbose"}
      BY DEF Values
    <3> QED BY <2>1, <3>1, Zenon DEF Defaults
  <2> QED BY <1>2, <2>1, <2>2 DEF ValuesBy, ValueBy
<1>4. ModeBy(mode, settings, results, 0)
  BY <1>2 DEF ModeBy, Init
<1>5. ExtraBy(extraPackageDirs, results, 0)
  <2>1. extraPackageDirs = <<>>
    BY DEF Init
  <2> QED BY <1>2, <2>1, FS_EmptySet DEF ExtraBy, Extra
<1> QED BY <1>1, <1>3, <1>4, <1>5 DEF SetInv, AllBy

(* getopt_long adds what it returns to the results, and nothing else.      *)
LEMMA StepReturns ==
  GetoptStep =>
    /\ at # "caller"
    /\ \/ at' # "caller" /\ results' = results
       \/ at' = "caller" /\ results' = Append(results, <<ret', optarg'>>)
<1> SUFFICES ASSUME GetoptStep
             PROVE  /\ at # "caller"
                    /\ \/ at' # "caller" /\ results' = results
                       \/ at' = "caller" /\ results' = Append(results, <<ret', optarg'>>)
  OBVIOUS
<1>1. CASE Permute \/ SwapBottom \/ SwapTop \/ Exchanged \/ SkipNonOption \/ DashDash \/ TakeRest
  BY <1>1 DEF Permute, Exchange, SwapBottom, SwapTop, Exchanged, Exchanging,
              SkipNonOption, DashDash, TakeRest, resultVars
<1>2. CASE \/ EndOfOptions \/ RefuseOption \/ ShortOption
          \/ InlineArgument \/ NextArgument \/ PlainOption
  BY <1>2 DEF EndOfOptions, RefuseOption, ShortOption, InlineArgument, NextArgument,
              PlainOption, AtLong, Return
<1> QED BY <1>1, <1>2 DEF GetoptStep

Kept == UNCHANGED <<settings, mode, extraPackageDirs>>

LEMMA CallSet == ReadingInv /\ SetInv /\ CallGetopt => SetInv'
<1> SUFFICES ASSUME ReadingInv, SetInv, CallGetopt PROVE SetInv'
  OBVIOUS
<1>1. pc = "next" /\ pc' = "options" /\ at' # "caller" /\ results' = results /\ Kept
  BY DEF CallGetopt, Call, Goto, Kept, local, Order
<1>2. Seen = Len(results) /\ Seen' = Len(results)
  BY <1>1 DEF Seen, Handling
<1> QED BY <1>1, <1>2 DEF SetInv, Choosing, Handling, Kept

LEMMA RunsSet == ReadingInv /\ SetInv /\ GetoptRuns => SetInv'
<1> SUFFICES ASSUME ReadingInv, SetInv, GetoptRuns PROVE SetInv'
  OBVIOUS
<1>1. pc = "options" /\ pc' = pc /\ Kept /\ GetoptStep
  BY DEF GetoptRuns, mainVars, local, Kept
<1>2. AllBy(settings, mode, extraPackageDirs, results, Len(results))
  BY <1>1, StepReturns DEF SetInv, Choosing, Seen, Handling
<1>3. results \in Seq(Outs) /\ Len(results) \in Nat
  BY DEF ReadingInv, GInv, Known
<1>4. CASE at' # "caller" /\ results' = results
  BY <1>1, <1>2, <1>4 DEF SetInv, Choosing, Seen, Handling, Kept
<1>5. CASE at' = "caller" /\ results' = Append(results, <<ret', optarg'>>)
  <2>1. /\ Len(results') = Len(results) + 1 /\ results'[Len(results')] = <<ret', optarg'>>
        /\ results' # <<>> /\ Agree(results, results', Len(results))
    BY <1>3, <1>5 DEF Agree
  <2>2. Seen' = Len(results)
    BY <1>1, <1>3, <1>5, <2>1 DEF Seen, Handling
  <2>3. AllBy(settings, mode, extraPackageDirs, results', Len(results))
    BY <1>2, <1>3, <2>1, SameBy
  <2> QED BY <1>1, <1>5, <2>1, <2>2, <2>3 DEF SetInv, Choosing, Kept
<1> QED BY <1>1, <1>4, <1>5, StepReturns

(* An option is handled: its part of the variables is brought up to date.  *)
LEMMA HandledSet ==
  ASSUME ReadingInv, SetInv, Handling
  PROVE  \E n \in Nat :
           /\ n = Seen /\ n + 1 = Len(results) /\ results[n + 1] = <<ret, optarg>>
           /\ results[n + 1][1] = ret /\ results[n + 1][2] = optarg /\ optarg \in Args
           /\ AllBy(settings, mode, extraPackageDirs, results, n)
<1>1. results \in Seq(Outs) /\ Len(results) \in Nat
  BY DEF ReadingInv, GInv, Known
<1>2. results # <<>> /\ results[Len(results)] = <<ret, optarg>>
  BY DEF SetInv
<1>3. Len(results) # 0
  BY <1>1, <1>2
<1>4. Seen \in Nat /\ Seen + 1 = Len(results)
  BY <1>1, <1>3 DEF Seen
<1>5. results[Len(results)] \in Outs
  BY <1>1, <1>3
<1>6. optarg \in Args
  BY <1>2, <1>5 DEF Outs
<1> QED BY <1>2, <1>4, <1>6 DEF SetInv, Choosing, Handling

LEMMA HandleSet ==
  ASSUME NEW n \in Nat, n + 1 = Len(results), pc' \in {"next", "paths"}, UNCHANGED getoptVars,
         Handling, pc' = "paths" => ret = "end",
         ValuesBy(settings', results, n + 1), ModeBy(mode', settings', results, n + 1),
         ExtraBy(extraPackageDirs', results, n + 1)
  PROVE  SetInv'
<1>1. results' = results /\ at' = at /\ ret' = ret
  BY DEF getoptVars, resultVars
<1>2. ~Handling' /\ Seen' = n + 1
  BY <1>1 DEF Seen, Handling
<1> QED BY <1>1, <1>2 DEF SetInv, AllBy, Handling

LEMMA LeftSet == ~Choosing' => SetInv'
BY DEF SetInv, Choosing, Handling

LEMMA ValueSet == ReadingInv /\ SetInv /\ (Set \/ SetPathType) => SetInv'
<1> SUFFICES ASSUME ReadingInv, SetInv, Set \/ SetPathType PROVE SetInv'
  OBVIOUS
<1>1. ~Choosing' \/
      /\ Handling /\ pc' = "next" /\ UNCHANGED <<getoptVars, mode, extraPackageDirs>>
      /\ ret \in Values /\ settings' = [settings EXCEPT ![ret] = optarg]
  BY DEF Set, SetPathType, Returned, Handling, Goto, Exit, local, Values, Choosing
<1>2. CASE ~Choosing'
  BY <1>2, LeftSet
<1>3. CASE Choosing'
  <2>1. PICK n \in Nat : /\ n = Seen /\ n + 1 = Len(results)
                         /\ results[n + 1][1] = ret /\ results[n + 1][2] = optarg
                         /\ AllBy(settings, mode, extraPackageDirs, results, n)
    BY <1>1, <1>3, HandledSet
  <2>2. ret \notin Modes /\ ret \notin {"Verbose", "Package", "PackageExtraDirectory"}
    BY <1>1, <1>3 DEF Values, Plain, Modes
  <2>3. /\ settings = [v \in Values \cup {"Package", "Verbose"} |-> settings[v]]
        /\ settings' = [v \in Values \cup {"Package", "Verbose"} |-> settings'[v]]
        /\ \A v \in Values : settings'[v] = IF ret = v THEN optarg ELSE settings[v]
        /\ settings'["Verbose"] = settings["Verbose"]
        /\ settings'["Package"] = settings["Package"]
    <3>1. settings = [v \in Values \cup {"Package", "Verbose"} |-> settings[v]]
      BY <2>1 DEF AllBy, ValuesBy
    <3> QED BY <1>1, <1>3, <2>2, <3>1
  <2>4. ValuesBy(settings', results, n + 1)
    <3>1. OneOption(settings, settings', results, n)
      BY <2>1, <2>2, <2>3 DEF OneOption
    <3>2. ValuesBy(settings, results, n)
      BY <2>1 DEF AllBy
    <3> QED BY <3>1, <3>2, ValuesMore
  <2>5. ModeBy(mode', settings', results, n + 1)
    <3>1. ModeBy(mode, settings, results, n) /\ mode' = mode /\ results[n + 1][1] \notin Modes
      BY <1>1, <1>3, <2>1, <2>2 DEF AllBy
    <3> QED BY <2>3, <3>1, ModeMore
  <2>6. ExtraBy(extraPackageDirs', results, n + 1)
    BY <1>1, <1>3, <2>1, <2>2, ExtraSame DEF AllBy
  <2> QED BY <1>1, <1>3, <2>1, <2>4, <2>5, <2>6, HandleSet
<1> QED BY <1>2, <1>3

LEMMA VerboseSet == ReadingInv /\ SetInv /\ SetVerbose => SetInv'
<1> SUFFICES ASSUME ReadingInv, SetInv, SetVerbose PROVE SetInv'
  OBVIOUS
<1>1. /\ Handling /\ pc' = "next" /\ UNCHANGED <<getoptVars, mode, extraPackageDirs>>
      /\ ret = "Verbose" /\ settings' = [settings EXCEPT !["Verbose"] = <<"true">>]
  BY DEF SetVerbose, Returned, Handling, Goto, local
<1>2. PICK n \in Nat : /\ n = Seen /\ n + 1 = Len(results) /\ results[n + 1][1] = ret
                       /\ AllBy(settings, mode, extraPackageDirs, results, n)
  BY <1>1, HandledSet
<1>3. ret \notin Modes /\ ret \notin Values /\ ret # "PackageExtraDirectory"
  BY <1>1 DEF Values, Plain, Modes
<1>4. /\ settings' = [v \in Values \cup {"Package", "Verbose"} |-> settings'[v]]
      /\ \A v \in Values : settings'[v] = settings[v]
      /\ settings'["Verbose"] = <<"true">> /\ settings'["Package"] = settings["Package"]
  <2>1. settings = [v \in Values \cup {"Package", "Verbose"} |-> settings[v]]
    BY <1>2 DEF AllBy, ValuesBy
  <2> QED BY <1>1, <1>3, <2>1
<1>5. ValuesBy(settings', results, n + 1)
  <2>1. OneOption(settings, settings', results, n)
    BY <1>1, <1>2, <1>3, <1>4 DEF OneOption
  <2>2. ValuesBy(settings, results, n)
    BY <1>2 DEF AllBy
  <2> QED BY <2>1, <2>2, ValuesMore
<1>6. ModeBy(mode', settings', results, n + 1)
  <2>1. ModeBy(mode, settings, results, n) /\ mode' = mode /\ results[n + 1][1] \notin Modes
    BY <1>1, <1>2, <1>3 DEF AllBy
  <2> QED BY <1>4, <2>1, ModeMore
<1>7. ExtraBy(extraPackageDirs', results, n + 1)
  BY <1>1, <1>2, <1>3, ExtraSame DEF AllBy
<1> QED BY <1>1, <1>2, <1>5, <1>6, <1>7, HandleSet

LEMMA ExtraSet == ReadingInv /\ SetInv /\ AddExtraDirectory => SetInv'
<1> SUFFICES ASSUME ReadingInv, SetInv, AddExtraDirectory PROVE SetInv'
  OBVIOUS
<1>1. /\ Handling /\ pc' = "next" /\ UNCHANGED <<getoptVars, mode, settings>>
      /\ ret = "PackageExtraDirectory"
      /\ extraPackageDirs' = Append(extraPackageDirs, optarg)
  BY DEF AddExtraDirectory, Returned, Handling, Goto
<1>2. PICK n \in Nat : /\ n = Seen /\ n + 1 = Len(results) /\ results[n + 1][1] = ret
                       /\ results[n + 1][2] = optarg /\ optarg \in Args
                       /\ AllBy(settings, mode, extraPackageDirs, results, n)
  BY <1>1, HandledSet
<1>3. ret \notin Modes /\ ret \notin Values /\ ret # "Verbose"
  BY <1>1 DEF Values, Plain, Modes
<1>4. ValuesBy(settings', results, n + 1)
  <2>1. settings = [v \in Values \cup {"Package", "Verbose"} |-> settings[v]]
    BY <1>2 DEF AllBy, ValuesBy
  <2>2. OneOption(settings, settings', results, n)
    BY <1>1, <1>2, <1>3, <2>1 DEF OneOption
  <2>3. ValuesBy(settings, results, n)
    BY <1>2 DEF AllBy
  <2> QED BY <2>2, <2>3, ValuesMore
<1>5. ModeBy(mode', settings', results, n + 1)
  <2>1. /\ ModeBy(mode, settings, results, n) /\ mode' = mode /\ settings' = settings
        /\ results[n + 1][1] \notin Modes
    BY <1>1, <1>2, <1>3 DEF AllBy
  <2> QED BY <2>1, ModeMore
<1>6. ExtraBy(extraPackageDirs', results, n + 1)
  BY <1>1, <1>2, ExtraMore DEF AllBy
<1> QED BY <1>1, <1>2, <1>4, <1>5, <1>6, HandleSet

LEMMA ModeSet == ReadingInv /\ SetInv /\ SetMode => SetInv'
<1> SUFFICES ASSUME ReadingInv, SetInv, SetMode PROVE SetInv'
  OBVIOUS
<1>1. ~Choosing' \/
      /\ Handling /\ pc' = "next" /\ UNCHANGED <<getoptVars, extraPackageDirs>>
      /\ ret \in Modes /\ mode = "NoMode" /\ mode' = ret
      /\ settings' = IF ret = "PackageList" THEN settings
                     ELSE [settings EXCEPT !["Package"] = optarg]
  BY DEF SetMode, Returned, Handling, Goto, Exit, Choosing
<1>2. CASE ~Choosing'
  BY <1>2, LeftSet
<1>3. CASE Choosing'
  <2>1. PICK n \in Nat : /\ n = Seen /\ n + 1 = Len(results)
                         /\ results[n + 1][1] = ret /\ results[n + 1][2] = optarg
                         /\ AllBy(settings, mode, extraPackageDirs, results, n)
    BY <1>1, <1>3, HandledSet
  <2>2. ret \notin Values /\ ret \notin {"Verbose", "PackageExtraDirectory"}
        /\ {"Package", "Verbose"} \cap Values = {}
    BY <1>1, <1>3 DEF Values, Plain, Modes
  <2>3. /\ settings' = [v \in Values \cup {"Package", "Verbose"} |-> settings'[v]]
        /\ \A v \in Values : settings'[v] = settings[v]
        /\ settings'["Verbose"] = settings["Verbose"]
        /\ ret # "PackageList" => settings'["Package"] = optarg
    <3>1. settings = [v \in Values \cup {"Package", "Verbose"} |-> settings[v]]
      BY <2>1 DEF AllBy, ValuesBy
    <3> QED BY <1>1, <1>3, <2>2, <3>1
  <2>4. ValuesBy(settings', results, n + 1)
    <3>1. OneOption(settings, settings', results, n)
      BY <2>1, <2>2, <2>3 DEF OneOption
    <3>2. ValuesBy(settings, results, n)
      BY <2>1 DEF AllBy
    <3> QED BY <3>1, <3>2, ValuesMore
  <2>5. ModeBy(mode', settings', results, n + 1)
    <3>1. ModeBy("NoMode", settings, results, n) /\ mode' = results[n + 1][1]
      BY <1>1, <1>3, <2>1 DEF AllBy
    <3>2. results[n + 1][1] \in Modes
      BY <1>1, <1>3, <2>1
    <3> QED BY <2>1, <2>3, <3>1, <3>2, ModeFirst
  <2>6. ExtraBy(extraPackageDirs', results, n + 1)
    BY <1>1, <1>3, <2>1, <2>2, ExtraSame DEF AllBy
  <2> QED BY <1>1, <1>3, <2>1, <2>4, <2>5, <2>6, HandleSet
<1> QED BY <1>2, <1>3

LEMMA OthersSet ==
  ReadingInv /\ SetInv /\ (Ignore \/ SetCompiler \/ LeaveAtOnce \/ OptionsDone) => SetInv'
<1> SUFFICES ASSUME ReadingInv, SetInv, Ignore \/ SetCompiler \/ LeaveAtOnce \/ OptionsDone
             PROVE  SetInv'
  OBVIOUS
<1>1. ~Choosing' \/
      /\ Handling /\ pc' \in {"next", "paths"} /\ (pc' = "paths" => ret = "end")
      /\ UNCHANGED getoptVars /\ Kept /\ ret \in Ignored \cup {"Compiler", "end"}
  BY DEF Ignore, SetCompiler, LeaveAtOnce, OptionsDone, Returned, Handling, Goto, Exit,
         Choosing, Kept, local
<1>2. CASE ~Choosing'
  BY <1>2, LeftSet
<1>3. CASE Choosing'
  <2>1. PICK n \in Nat : /\ n = Seen /\ n + 1 = Len(results) /\ results[n + 1][1] = ret
                         /\ AllBy(settings, mode, extraPackageDirs, results, n)
    BY <1>1, <1>3, HandledSet
  <2>2. /\ ret \notin Values /\ ret \notin {"Verbose", "PackageExtraDirectory"}
        /\ ret \notin Modes
    BY <1>1, <1>3 DEF Values, Plain, Modes, Ignored
  <2>3. ValuesBy(settings', results, n + 1)
    <3>1. settings = [v \in Values \cup {"Package", "Verbose"} |-> settings[v]]
      BY <2>1 DEF AllBy, ValuesBy
    <3>2. OneOption(settings, settings', results, n)
      BY <1>1, <1>3, <2>1, <2>2, <3>1 DEF OneOption, Kept
    <3>3. ValuesBy(settings, results, n)
      BY <2>1 DEF AllBy
    <3> QED BY <3>2, <3>3, ValuesMore
  <2>4. ModeBy(mode', settings', results, n + 1)
    <3>1. /\ ModeBy(mode, settings, results, n) /\ mode' = mode /\ settings' = settings
          /\ results[n + 1][1] \notin Modes
      BY <1>1, <1>3, <2>1, <2>2 DEF AllBy, Kept
    <3> QED BY <3>1, ModeMore
  <2>5. ExtraBy(extraPackageDirs', results, n + 1)
    BY <1>1, <1>3, <2>1, <2>2, ExtraSame DEF AllBy, Kept
  <2> QED BY <1>1, <1>3, <2>1, <2>3, <2>4, <2>5, HandleSet
<1> QED BY <1>2, <1>3

(* Behind the options main does not come back to them.                     *)
LEMMA StartupGoesOn == Startup => ~Choosing'
BY DEF Startup, CheckPaths, RunOneLine, OneLine, SplitRuns, Splitting, FirstLine, mainVars,
       HostDetected, MapBuildTypes, LoadPackages, LoadExtra, Goto, Exit, Choosing

LEMMA InspectGoesOn == KnownMode /\ Inspect => ~Choosing'
<1> SUFFICES ASSUME KnownMode, Inspect PROVE ~Choosing'
  OBVIOUS
<1> USE DEF Goto, Exit, Choosing
<1>1. CASE SelectMode
  BY <1>1 DEF SelectMode, KnownMode, Modes
<1>2. CASE VersionRead
  BY <1>2 DEF VersionRead
<1>3. CASE Locate
  <2>1. pc' = "done" \/ pc' = "variables"
    BY <1>3, Zenon DEF Locate
  <2> QED BY <2>1
<1>4. CASE RunBuildFile \/ VariableLine
  BY <1>4 DEF RunBuildFile, VariableLine
<1>5. CASE VariablesRead
  BY <1>5 DEF VariablesRead
<1>6. CASE AddLanguage \/ LanguagesRead
  BY <1>6 DEF AddLanguage, LanguagesRead
<1>7. CASE SearchCompilers
  BY <1>7 DEF SearchCompilers, KnownMode, Modes
<1> QED BY <1>1, <1>2, <1>3, <1>4, <1>5, <1>6, <1>7 DEF Inspect

LEMMA RunModeGoesOn == RunMode => ~Choosing'
BY DEF RunMode, PrintPrefix, ManifestLine, PrintFile, InstallOne, InstallEnds, Goto, Exit, Choosing

LEMMA NextSet == ReadingInv /\ KnownMode /\ SetInv /\ [Next]_vars => SetInv'
<1> SUFFICES ASSUME ReadingInv, KnownMode, SetInv, [Next]_vars PROVE SetInv'
  OBVIOUS
<1>1. CASE Options
  BY <1>1, CallSet, RunsSet, ValueSet, VerboseSet, ExtraSet, ModeSet, OthersSet DEF Options
<1>2. CASE Startup \/ Inspect \/ RunMode
  BY <1>2, StartupGoesOn, InspectGoesOn, RunModeGoesOn, LeftSet
<1>3. CASE UNCHANGED vars
  <2>1. Kept /\ UNCHANGED <<pc, at, ret, optarg, results>>
    BY <1>3 DEF vars, mainVars, local, Kept, getoptVars, resultVars
  <2> QED BY <2>1 DEF SetInv, Kept, Choosing, Handling, Seen
<1> QED BY <1>1, <1>2, <1>3 DEF Next

LEMMA SetIsAsGiven == ReadingInv /\ SetInv => SettingsAsGiven
<1> SUFFICES ASSUME ReadingInv, SetInv, pc = "paths"
             PROVE  SetBy(Reading.results, Len(Reading.results))
  BY DEF SettingsAsGiven
<1>1. at = "caller" /\ ret = "end" /\ Seen = Len(results)
  BY DEF SetInv, Seen, Handling
<1>2. results = Reading.results
  BY <1>1 DEF ReadingInv, Running, Done
<1>3. Len(results) \in Nat
  BY DEF ReadingInv, GInv, Known
<1>4. SetBy(results, Len(results))
  BY <1>1, <1>3, AllIsSet DEF SetInv, Choosing
<1> QED BY <1>2, <1>4

(* For every table of options and every command line: when the options are *)
(* done, what main has set is what the options on it, read one by one from *)
(* the left, ask for (main.cpp:724-821).                                   *)
THEOREM SettingsAreGiven == Spec => []SettingsAsGiven
<1>1. Init => SetInv /\ KnownMode
  BY InitSet DEF Init, KnownMode
<1>2. ReadingInv /\ KnownMode /\ SetInv /\ [Next]_vars => SetInv' /\ KnownMode'
  BY NextSet, ModeStaysKnown
<1>3. ReadingInv /\ SetInv => SettingsAsGiven
  BY SetIsAsGiven
<1> QED BY <1>1, <1>2, <1>3, MainReads, PTL DEF Spec
-----------------------------------------------------------------------------
(* What an inspection has found.  The pieces that the splitter returned    *)
(* are the items of the text: the k-th of them is the one with k items     *)
(* that begin no later.                                                    *)
LEMMA CountDistinct ==
  ASSUME NEW f, NEW k \in Nat, \A i, j \in 1..k : i # j => f[i] # f[j]
  PROVE  Cardinality({f[i] : i \in 1..k}) = k
<1> DEFINE S == {f[i] : i \in 1..k}
           g == [i \in 1..k |-> f[i]]
<1>1. IsFiniteSet(1..k) /\ Cardinality(1..k) = k
  BY FS_Interval
<1>2. g \in Bijection(1..k, S)
  <2>1. g \in [1..k -> S]
    OBVIOUS
  <2>2. \A i, j \in 1..k : g[i] = g[j] => i = j
    OBVIOUS
  <2>3. \A x \in S : \E i \in 1..k : g[i] = x
    OBVIOUS
  <2> HIDE DEF g, S
  <2> QED BY <2>1, <2>2, <2>3, Zenon DEF Bijection, Injection, Surjection, IsInjective
<1>3. ExistsBijection(1..k, S)
  BY <1>2 DEF ExistsBijection
<1> QED BY <1>1, <1>3, FS_Bijection

LEMMA TokensAreItems ==
  ASSUME SInv, phase = "over"
  PROVE  /\ Items(text, delimiters) = {tokens[i] : i \in 1..Len(tokens)}
         /\ \A i, j \in 1..Len(tokens) : i < j => tokens[i][1] < tokens[j][1]
<1>1. SplitsExactly
  BY InvIsExact
<1>2. /\ Len(text) \in Nat /\ Len(tokens) \in Nat
      /\ \A i \in 1..Len(tokens) : tokens[i] = <<tokens[i][1], tokens[i][2]>>
  BY DEF SInv, InText
<1>3. \A i \in 1..Len(tokens) : tokens[i] \in Items(text, delimiters)
  <2> SUFFICES ASSUME NEW i \in 1..Len(tokens) PROVE tokens[i] \in Items(text, delimiters)
    OBVIOUS
  <2>1. PieceOf(text, delimiters, tokens[i][1], tokens[i][2])
    BY <1>1 DEF SplitsExactly, IsPiece
  <2>2. tokens[i][1] \in 0..Len(text) /\ tokens[i][2] \in 0..Len(text)
    BY <2>1 DEF PieceOf
  <2>3. tokens[i] \in (0..Len(text)) \X (0..Len(text))
    <3>1. tokens[i] = <<tokens[i][1], tokens[i][2]>>
      BY <1>2
    <3> QED BY <2>2, <3>1, Zenon
  <2> QED BY <2>1, <2>3 DEF Items
<1>4. ASSUME NEW r \in Items(text, delimiters)
      PROVE  \E i \in 1..Len(tokens) : tokens[i] = r
  <2>1. r = <<r[1], r[2]>> /\ r[1] \in 0..Len(text) /\ r[2] \in 0..Len(text) /\ IsPiece(r[1], r[2])
    BY DEF Items, IsPiece
  <2> QED BY <1>1, <2>1 DEF SplitsExactly
<1>5. ASSUME NEW i \in 1..Len(tokens), NEW j \in 1..Len(tokens), i < j
      PROVE  tokens[i][1] < tokens[j][1]
  <2>1. IsPiece(tokens[i][1], tokens[i][2]) /\ tokens[i][2] < tokens[j][1]
    BY <1>1, <1>5 DEF SplitsExactly
  <2>2. tokens[i] \in Nat \X Nat /\ tokens[j] \in Nat \X Nat
    BY DEF SInv, InText
  <2> QED BY <2>1, <2>2 DEF IsPiece, PieceOf
<1> QED BY <1>3, <1>4, <1>5

(* What has been taken of the pieces is in seq.                            *)
Took(seq) ==
  /\ seq \in Seq(Seq(Chars)) /\ Len(seq) = Len(tokens)
  /\ \A k \in 1..Len(tokens) : seq[k] = Piece(tokens[k])

LEMMA TookItems ==
  ASSUME SInv, phase = "over", NEW seq, Took(seq)
  PROVE  AreItems(seq, text, delimiters)
<1> DEFINE n == Len(tokens)
           S == Items(text, delimiters)
<1>1. n \in Nat /\ S = {tokens[i] : i \in 1..n}
  BY TokensAreItems DEF SInv, InText
<1>2. \A i \in 1..n : tokens[i] \in Nat \X Nat
  BY DEF SInv, InText
<1>3. \A i, j \in 1..n : i < j => tokens[i][1] < tokens[j][1]
  BY TokensAreItems
<1>4. \A i, j \in 1..n : i # j => tokens[i] # tokens[j]
  <2>1. \A i, j \in 1..n : i < j => tokens[i] # tokens[j]
    BY <1>2, <1>3
  <2> QED BY <1>1, <2>1
<1>5. ASSUME NEW k \in 0..n PROVE Cardinality({tokens[i] : i \in 1..k}) = k
  BY <1>1, <1>4, CountDistinct
<1>6. Len(seq) = Cardinality(S)
  <2>1. Len(seq) = n
    BY DEF Took
  <2>2. Cardinality({tokens[i] : i \in 1..n}) = n
    BY <1>1, <1>5
  <2> QED BY <1>1, <2>1, <2>2
<1>7. ASSUME NEW r \in S
      PROVE  seq[Cardinality({q \in S : q[1] <= r[1]})] = SubSeq(text, r[1] + 1, r[2])
  <2>1. PICK k \in 1..n : tokens[k] = r
    BY <1>1
  <2>2. \A i \in 1..n : tokens[i][1] <= tokens[k][1] <=> i <= k
    BY <1>1, <1>2, <1>3
  <2>3. {q \in S : q[1] <= r[1]} = {tokens[i] : i \in 1..k}
    <3>1. \A i \in 1..k : i \in 1..n /\ i <= k
      BY <1>1
    <3> QED BY <1>1, <2>1, <2>2, <3>1
  <2>4. Cardinality({q \in S : q[1] <= r[1]}) = k
    BY <1>5, <2>3
  <2> QED BY <2>1, <2>4 DEF Took, Piece
<1> QED BY <1>6, <1>7 DEF AreItems

(* A text without delimiters is an item where delimiters surround it.      *)
ItemAt(t, d, f, e, b) == PieceOf(t, {d}, f, e) /\ SubSeq(t, f + 1, e) = b

LEMMA TextsJoined ==
  ASSUME NEW a \in Seq(Chars), NEW b \in Seq(Chars)
  PROVE  /\ a \o b \in Seq(Chars) /\ Len(a \o b) = Len(a) + Len(b)
         /\ \A i \in 1..Len(a) : (a \o b)[i] = a[i]
         /\ \A i \in 1..Len(b) : (a \o b)[Len(a) + i] = b[i]
BY ConcatProperties

LEMMA TextsAssociate ==
  ASSUME NEW a \in Seq(Chars), NEW b \in Seq(Chars), NEW c \in Seq(Chars)
  PROVE  (a \o b) \o c = a \o (b \o c)
BY ConcatAssociative

LEMMA ItemBetween ==
  ASSUME NEW a \in Seq(Chars), NEW b \in Seq(Chars), NEW c \in Seq(Chars), NEW d,
         a = <<>> \/ a[Len(a)] = d, b # <<>>, \A i \in 1..Len(b) : b[i] # d,
         c = <<>> \/ c[1] = d
  PROVE  ItemAt(a \o b \o c, d, Len(a), Len(a) + Len(b), b)
<1> DEFINE t == a \o b \o c
<1>1. Len(a) \in Nat /\ Len(b) \in Nat /\ Len(c) \in Nat /\ Len(b) # 0
      /\ (a = <<>> => Len(a) = 0) /\ (c = <<>> => Len(c) = 0)
      /\ (c # <<>> => Len(c) # 0)
  OBVIOUS
<1>2. /\ a \o b \in Seq(Chars) /\ Len(a \o b) = Len(a) + Len(b)
      /\ \A i \in 1..Len(a) : (a \o b)[i] = a[i]
      /\ \A i \in 1..Len(b) : (a \o b)[Len(a) + i] = b[i]
  BY TextsJoined
<1>3. /\ t \in Seq(Chars) /\ Len(t) = Len(a) + Len(b) + Len(c)
      /\ \A i \in 1..(Len(a) + Len(b)) : t[i] = (a \o b)[i]
      /\ c # <<>> => t[Len(a) + Len(b) + 1] = c[1]
  BY <1>1, <1>2, TextsJoined
<1> HIDE DEF t
<1>4. \A i \in (Len(a) + 1)..(Len(a) + Len(b)) : t[i] = b[i - Len(a)] /\ i - Len(a) \in 1..Len(b)
  <2> SUFFICES ASSUME NEW i \in (Len(a) + 1)..(Len(a) + Len(b))
               PROVE  t[i] = b[i - Len(a)] /\ i - Len(a) \in 1..Len(b)
    OBVIOUS
  <2>1. i - Len(a) \in 1..Len(b) /\ Len(a) + (i - Len(a)) = i /\ i \in 1..(Len(a) + Len(b))
    BY <1>1
  <2> QED BY <1>2, <1>3, <2>1
<1>5. a = <<>> \/ t[Len(a)] = d
  <2>1. a # <<>> => Len(a) \in 1..Len(a)
    OBVIOUS
  <2> QED BY <1>1, <1>2, <1>3, <2>1
<1>6. PieceOf(t, {d}, Len(a), Len(a) + Len(b))
  <2>1. Len(a) \in 0..Len(t) /\ Len(a) + Len(b) \in 0..Len(t) /\ Len(a) < Len(a) + Len(b)
    BY <1>1, <1>3
  <2>2. \A i \in (Len(a) + 1)..(Len(a) + Len(b)) : t[i] \notin {d}
    BY <1>4
  <2>3. Len(a) + Len(b) = Len(t) \/ t[Len(a) + Len(b) + 1] \in {d}
    <3>1. CASE c = <<>>
      <4>1. Len(c) = 0
        BY <1>1, <3>1
      <4> QED BY <1>1, <1>3, <4>1
    <3>2. CASE c # <<>>
      <4>1. c[1] = d /\ t[Len(a) + Len(b) + 1] = c[1]
        BY <1>3, <3>2
      <4> QED BY <4>1
    <3> QED BY <3>1, <3>2
  <2>4. Len(a) = 0 \/ t[Len(a)] \in {d}
    BY <1>1, <1>5
  <2> QED BY <2>1, <2>2, <2>3, <2>4 DEF PieceOf
<1>7. SubSeq(t, Len(a) + 1, Len(a) + Len(b)) = b
  <2> DEFINE q == SubSeq(t, Len(a) + 1, Len(a) + Len(b))
  <2>1. q = [i \in 1..Len(b) |-> t[Len(a) + 1 + i - 1]]
    <3>1. Len(a) + Len(b) - (Len(a) + 1) + 1 = Len(b)
      BY <1>1
    <3> QED BY <3>1
  <2>2. \A i \in 1..Len(b) : t[Len(a) + 1 + i - 1] = b[i]
    <3> SUFFICES ASSUME NEW i \in 1..Len(b) PROVE t[Len(a) + 1 + i - 1] = b[i]
      OBVIOUS
    <3>1. Len(a) + 1 + i - 1 = Len(a) + i /\ Len(a) + i \in (Len(a) + 1)..(Len(a) + Len(b))
          /\ (Len(a) + i) - Len(a) = i
      BY <1>1
    <3> QED BY <1>4, <3>1
  <2>3. b = [i \in 1..Len(b) |-> b[i]]
    OBVIOUS
  <2> HIDE DEF q
  <2> QED BY <2>1, <2>2, <2>3 DEF q
<1> QED BY <1>6, <1>7 DEF t, ItemAt

LEMMA WithoutLast ==
  ASSUME NEW b \in Seq(Chars), NEW c \in Chars
  PROVE  LET v == b \o <<c>> IN v[Len(v)] = c /\ SubSeq(v, 1, Len(v) - 1) = b
<1>1. <<c>> \in Seq(Chars) /\ Len(<<c>>) = 1 /\ <<c>>[1] = c /\ Len(b) \in Nat
  OBVIOUS
<1> DEFINE v == b \o <<c>>
<1>2. Len(v) = Len(b) + 1 /\ v[Len(b) + 1] = c /\ \A i \in 1..Len(b) : v[i] = b[i]
  BY <1>1, TextsJoined
<1> HIDE DEF v
<1>3. SubSeq(v, 1, Len(v) - 1) = [i \in 1..Len(b) |-> v[i]]
  <2>1. Len(v) - 1 - 1 + 1 = Len(b) /\ \A i \in 1..Len(b) : 1 + i - 1 = i
    BY <1>1, <1>2
  <2> QED BY <2>1
<1>4. b = [i \in 1..Len(b) |-> b[i]]
  OBVIOUS
<1>5. SubSeq(v, 1, Len(v) - 1) = b
  BY <1>2, <1>3, <1>4
<1> QED BY <1>2, <1>5 DEF v

(* A recipe that prints something ends its lines: what its first variable  *)
(* is printed behind is not the rest of another line.                      *)
PrintsWholeLines ==
  \A s \in Scenarios : \A t \in {"metaPrints", "recipePrints"} :
    s.world[t] = <<>> \/ s.world[t][Len(s.world[t])] = "NL"

(* Where the lines of PACKAGE_TYPE and LANGS are.                          *)
TypeFrom  == Len(world.recipePrints)
TypeTo    == TypeFrom + Len(world.packageType) + 1
LangsFrom == TypeTo + 1
LangsTo   == LangsFrom + Len(world.langs) + 1

LEMMA TextsOfWorld ==
  ASSUME WorldKept, PrintsWholeLines
  PROVE  /\ \A t \in Texts : world[t] \in Seq(Chars)
         /\ \A t \in Assigned : \A i \in 1..Len(world[t]) : world[t][i] # "NL"
         /\ \A t \in {"metaPrints", "recipePrints"} :
              world[t] = <<>> \/ world[t][Len(world[t])] = "NL"
         /\ "NL" \in Chars /\ "@" \in Chars /\ None \notin Seq(Chars)
BY ScenarioAssumption, Zenon DEF WorldKept, PrintsWholeLines

LEMMA VersionLine ==
  ASSUME WorldKept, PrintsWholeLines, world.defaultVersion # <<>>
  PROVE  ItemAt(Echo("version"), "NL", Len(world.metaPrints),
                Len(world.metaPrints) + Len(world.defaultVersion), world.defaultVersion)
<1> DEFINE a == world.metaPrints  b == world.defaultVersion  c == <<"NL">>
<1>1. /\ a \in Seq(Chars) /\ b \in Seq(Chars) /\ c \in Seq(Chars)
      /\ a = <<>> \/ a[Len(a)] = "NL"
      /\ \A i \in 1..Len(b) : b[i] # "NL"
      /\ c = <<>> \/ c[1] = "NL"
  BY TextsOfWorld, ShortSequences DEF Texts, Assigned
<1>2. Echo("version") = a \o b \o c
  BY DEF Echo
<1> HIDE DEF a, b, c
<1>3. b # <<>>
  BY DEF b
<1> QED BY <1>1, <1>2, <1>3, ItemBetween DEF a, b

LEMMA Ended ==
  ASSUME NEW b \in Seq(Chars), NEW c \in Seq(Chars), Len(c) = 1, c[1] = "@",
         \A i \in 1..Len(b) : b[i] # "NL"
  PROVE  /\ b \o c \in Seq(Chars) /\ Len(b \o c) = Len(b) + 1 /\ b \o c # <<>>
         /\ \A i \in 1..Len(b \o c) : (b \o c)[i] # "NL"
<1>1. /\ b \o c \in Seq(Chars) /\ Len(b \o c) = Len(b) + 1
      /\ \A i \in 1..Len(b) : (b \o c)[i] = b[i]
      /\ (b \o c)[Len(b) + 1] = "@" /\ Len(b) \in Nat
  <2>1. 1 \in 1..Len(c)
    OBVIOUS
  <2>2. (b \o c)[Len(b) + 1] = c[1]
    BY <2>1, TextsJoined
  <2>3. b \o c \in Seq(Chars) /\ Len(b \o c) = Len(b) + Len(c)
    BY TextsJoined
  <2>4. \A i \in 1..Len(b) : (b \o c)[i] = b[i]
    BY TextsJoined
  <2>5. Len(b) \in Nat
    OBVIOUS
  <2> QED BY <2>2, <2>3, <2>4, <2>5
<1>2. b \o c # <<>>
  BY <1>1
<1>3. \A i \in 1..(Len(b) + 1) : (b \o c)[i] # "NL"
  <2>1. \A i \in 1..(Len(b) + 1) : i \in 1..Len(b) \/ i = Len(b) + 1
    BY <1>1
  <2> QED BY <1>1, <2>1
<1> QED BY <1>1, <1>2, <1>3

LEMMA RecipeLines ==
  ASSUME WorldKept, PrintsWholeLines
  PROVE  /\ ItemAt(BuildEcho, "NL", TypeFrom, TypeTo, world.packageType \o <<"@">>)
         /\ ItemAt(BuildEcho, "NL", LangsFrom, LangsTo, world.langs \o <<"@">>)
         /\ Len(BuildEcho) = LangsTo + 1 /\ TypeFrom \in Nat /\ TypeTo \in Nat
         /\ LangsFrom \in Nat /\ LangsTo \in Nat /\ TypeFrom < TypeTo /\ LangsFrom < LangsTo
<1> DEFINE r == world.recipePrints  t == world.packageType  l == world.langs
           X == <<"@", "NL">>  A == <<"@">>  N == <<"NL">>
           tA == t \o A  lA == l \o A
           NlX == N \o (l \o X)  rtX == r \o (t \o X)
<1>1. /\ r \in Seq(Chars) /\ t \in Seq(Chars) /\ l \in Seq(Chars)
      /\ r = <<>> \/ r[Len(r)] = "NL"
      /\ \A i \in 1..Len(t) : t[i] # "NL"
      /\ \A i \in 1..Len(l) : l[i] # "NL"
  BY TextsOfWorld DEF Texts, Assigned
<1>2. X \in Seq(Chars) /\ A \in Seq(Chars) /\ N \in Seq(Chars) /\ A \o N = X
  <2>1. "NL" \in Chars /\ "@" \in Chars
    BY TextsOfWorld
  <2>2. X \in Seq(Chars) /\ A \in Seq(Chars) /\ N \in Seq(Chars)
    BY <2>1, ShortSequences
  <2>3. A \o N = X
    <3>1. Len(A) = 1 /\ A[1] = "@" /\ Len(N) = 1 /\ N[1] = "NL" /\ 1 \in 1..1
      OBVIOUS
    <3>2. X = [i \in 1..2 |-> IF i = 1 THEN "@" ELSE "NL"]
      OBVIOUS
    <3> HIDE DEF A, N, X
    <3>3. A \o N \in Seq(Chars) /\ Len(A \o N) = 2 /\ (A \o N)[1] = "@" /\ (A \o N)[1 + 1] = "NL"
      BY <2>2, <3>1, TextsJoined
    <3> DEFINE Q == A \o N
    <3>4. Q \in Seq(Chars) /\ Len(Q) = 2 /\ Q[1] = "@" /\ Q[2] = "NL"
      BY <3>3
    <3> HIDE DEF Q
    <3>5. Q = [i \in 1..2 |-> Q[i]]
      BY <3>4
    <3>6. Q = X
      BY <3>2, <3>4, <3>5
    <3> QED BY <3>6 DEF Q
  <2> QED BY <2>2, <2>3
<1>3. Len(A) = 1 /\ A[1] = "@" /\ Len(N) = 1 /\ N[1] = "NL" /\ Len(X) = 2 /\ X[2] = "NL"
  OBVIOUS
<1>4. BuildEcho = (((r \o t) \o X) \o l) \o X
  BY DEF BuildEcho
<1> HIDE DEF r, t, l, X, A, N
<1>5. Len(r) \in Nat /\ Len(t) \in Nat /\ Len(l) \in Nat
  BY <1>1
<1>6. /\ tA \in Seq(Chars) /\ Len(tA) = Len(t) + 1 /\ tA # <<>>
      /\ \A i \in 1..Len(tA) : tA[i] # "NL"
  BY <1>1, <1>2, <1>3, <1>5, Ended
<1>7. /\ lA \in Seq(Chars) /\ Len(lA) = Len(l) + 1 /\ lA # <<>>
      /\ \A i \in 1..Len(lA) : lA[i] # "NL"
  BY <1>1, <1>2, <1>3, <1>5, Ended
<1>8. l \o X \in Seq(Chars) /\ NlX \in Seq(Chars) /\ NlX[1] = "NL"
  <2>1. l \o X \in Seq(Chars)
    BY <1>1, <1>2, TextsJoined
  <2>2. 1 \in 1..Len(N)
    BY <1>3
  <2> QED BY <1>2, <1>3, <2>1, <2>2, TextsJoined
<1>9. t \o X \in Seq(Chars) /\ Len(t \o X) = Len(t) + 2 /\ (t \o X)[Len(t) + 2] = "NL"
  <2>1. 2 \in 1..Len(X)
    BY <1>3
  <2>2. (t \o X)[Len(t) + 2] = X[2]
    BY <1>1, <1>2, <2>1, TextsJoined
  <2> QED BY <1>1, <1>2, <1>3, <2>2, TextsJoined
<1>10. /\ rtX \in Seq(Chars) /\ Len(rtX) = Len(r) + Len(t) + 2 /\ rtX[Len(rtX)] = "NL"
  <2> DEFINE tX == t \o X
  <2>1. tX \in Seq(Chars) /\ Len(tX) = Len(t) + 2 /\ tX[Len(t) + 2] = "NL"
    BY <1>9
  <2> HIDE DEF tX
  <2>2. /\ rtX \in Seq(Chars) /\ Len(rtX) = Len(r) + Len(tX)
        /\ \A i \in 1..Len(tX) : rtX[Len(r) + i] = tX[i]
    BY <1>1, <2>1, TextsJoined DEF tX
  <2>3. Len(t) + 2 \in 1..Len(tX)
    BY <1>5, <2>1
  <2>4. rtX[Len(r) + (Len(t) + 2)] = "NL"
    BY <2>1, <2>2, <2>3
  <2> HIDE DEF rtX
  <2>5. Len(rtX) = Len(r) + (Len(t) + 2)
    BY <2>1, <2>2
  <2> QED BY <1>5, <2>2, <2>4, <2>5
<1>11. BuildEcho = (r \o tA) \o NlX
  <2> DEFINE rt == r \o t  lX == l \o X
  <2>1. rt \in Seq(Chars)
    BY <1>1, TextsJoined
  <2>2. lX \in Seq(Chars)
    BY <1>8
  <2>3. BuildEcho = (rt \o X) \o lX
    <3>1. rt \o X \in Seq(Chars)
      BY <1>2, <2>1, TextsJoined
    <3> HIDE DEF rt
    <3>2. ((rt \o X) \o l) \o X = (rt \o X) \o lX
      BY <1>1, <1>2, <3>1, TextsAssociate
    <3> QED BY <1>4, <3>2 DEF rt
  <2> HIDE DEF rt, lX
  <2>4. (rt \o X) \o lX = rt \o (X \o lX)
    BY <1>2, <2>1, <2>2, TextsAssociate
  <2>5. X \o lX = A \o (N \o lX)
    <3>1. (A \o N) \o lX = A \o (N \o lX)
      BY <1>2, <2>2, TextsAssociate
    <3> QED BY <1>2, <3>1
  <2>6. rt \o (A \o NlX) = (rt \o A) \o NlX
    BY <1>2, <1>8, <2>1, TextsAssociate
  <2>7. rt \o A = r \o tA
    <3>1. r \in Seq(Chars) /\ t \in Seq(Chars) /\ A \in Seq(Chars)
      BY <1>1, <1>2
    <3>2. (r \o t) \o A = r \o (t \o A)
      BY <3>1, TextsAssociate, Zenon
    <3> QED BY <3>2 DEF rt
  <2> QED BY <2>3, <2>4, <2>5, <2>6, <2>7 DEF lX
<1>12. BuildEcho = (rtX \o lA) \o N
  <2>1. (r \o t) \o X = rtX
    BY <1>1, <1>2, TextsAssociate
  <2>2. BuildEcho = (rtX \o l) \o X
    BY <1>4, <2>1
  <2> HIDE DEF rtX
  <2>3. (rtX \o l) \o X = rtX \o (l \o X)
    BY <1>1, <1>2, <1>10, TextsAssociate
  <2>4. l \o X = lA \o N
    <3>1. (l \o A) \o N = l \o (A \o N)
      BY <1>1, <1>2, TextsAssociate
    <3> QED BY <1>2, <3>1
  <2>5. rtX \o (lA \o N) = (rtX \o lA) \o N
    <3> HIDE DEF lA
    <3> QED BY <1>2, <1>7, <1>10, TextsAssociate
  <2> QED BY <2>2, <2>3, <2>4, <2>5
<1>13. TypeFrom = Len(r) /\ TypeTo = Len(r) + Len(tA)
  <2>1. TypeFrom = Len(r) /\ TypeTo = Len(r) + Len(t) + 1
    BY DEF TypeFrom, TypeTo, r, t
  <2> HIDE DEF tA
  <2> QED BY <1>5, <1>6, <2>1
<1>14. LangsFrom = Len(rtX) /\ LangsTo = Len(rtX) + Len(lA)
  <2>1. LangsFrom = Len(r) + Len(t) + 2 /\ LangsTo = LangsFrom + (Len(l) + 1)
    <3>1. LangsFrom = Len(r) + Len(t) + 1 + 1 /\ LangsTo = LangsFrom + Len(l) + 1
      BY DEF TypeFrom, TypeTo, LangsFrom, LangsTo, r, t, l
    <3> QED BY <1>5, <3>1
  <2> HIDE DEF lA, rtX
  <2> QED BY <1>7, <1>10, <2>1
<1> HIDE DEF tA, lA, NlX, rtX
<1>15. ItemAt(BuildEcho, "NL", TypeFrom, TypeTo, tA)
  BY <1>1, <1>6, <1>8, <1>11, <1>13, ItemBetween
<1>16. ItemAt(BuildEcho, "NL", LangsFrom, LangsTo, lA)
  <2>1. N = <<>> \/ N[1] = "NL"
    BY <1>3
  <2> QED BY <1>2, <1>7, <1>10, <1>12, <1>14, <2>1, ItemBetween
<1>17. Len(BuildEcho) = LangsTo + 1
  <2>1. rtX \o lA \in Seq(Chars) /\ Len(rtX \o lA) = Len(rtX) + Len(lA)
    BY <1>7, <1>10, TextsJoined
  <2>2. Len((rtX \o lA) \o N) = Len(rtX \o lA) + Len(N)
    BY <1>2, <2>1, TextsJoined
  <2> QED BY <1>3, <1>12, <1>14, <2>1, <2>2
<1>18. /\ TypeFrom \in Nat /\ TypeTo \in Nat /\ LangsFrom \in Nat /\ LangsTo \in Nat
       /\ TypeFrom < TypeTo /\ LangsFrom < LangsTo
  <2>1. /\ TypeFrom = Len(r) /\ TypeTo = TypeFrom + Len(t) + 1
        /\ LangsFrom = TypeTo + 1 /\ LangsTo = LangsFrom + Len(l) + 1
    BY DEF TypeFrom, TypeTo, LangsFrom, LangsTo, r, t, l
  <2> QED BY <1>5, <2>1
<1> QED BY <1>15, <1>16, <1>17, <1>18 DEF tA, lA, A, t, l


(* What main knows of the host, of the line a child prints, of the version *)
(* and of the variables, at each of its parts.                             *)
AtFirst      == {"next", "options", "paths"}
AfterHost    == {"mapping", "packages", "extra", "version", "locate", "variables",
                 "languages", "compilers", "SearchPath", "Install"}
AfterVersion == {"locate", "variables", "languages", "compilers", "SearchPath", "Install"}
AfterRecipe  == {"compilers", "SearchPath", "Install"}

SystemFound    == AreItems(<<host[1]>>, world.sysname, {"NL"})
ProcessorFound ==
  \E r \in Items(world.machine, {"NL"}) :
    LET processor == SubSeq(world.machine, r[1] + 1, r[2]) IN
      AreItems(<<processor>>, world.machine, {"NL"}) /\ host[2] = Normalize(processor)
VersionFound   == world.defaultVersion # <<>> => package.Version = world.defaultVersion
RecipeFound    ==
  /\ package.IsBinary = (world.packageType = <<"binary">>)
  /\ ~package.IsBinary => AreItems(package.Languages, world.langs, {","})

HostInv ==
  /\ pc \in AtFirst \cup {"uname -s"} => host = <<>>
  /\ pc = "uname -m" =>
       host = <<host[1]>> /\ (host[1] # <<>> => SystemFound)
  /\ pc \in AfterHost => SystemFound /\ ProcessorFound

OneLineInv ==
  /\ pc \in AtFirst \cup {"mapping", "packages", "extra"} => delimiters = {} /\ line = None
  /\ pc \in OneLine =>
       IF delimiters = {} THEN line = None
       ELSE /\ text = Echo(pc) /\ delimiters = {"NL"}
            /\ Took(IF line = None THEN <<>> ELSE <<line>>)

BeforeVersion == AtFirst \cup {"uname -s", "uname -m", "mapping", "packages", "extra", "version"}
Fields == {"Version", "BuildFile", "IsBinary", "Languages"}
PackageInv ==
  /\ pc \in BeforeVersion => package = NoPackage
  /\ pc # "done" => package = [f \in Fields |-> package[f]]
  /\ pc \in AfterVersion => VersionFound

(* The variables end with those whose lines have been read.                *)
VariablesBy ==
  LET t == Len(tokens)  n == Len(variables) IN
  /\ t > 0 /\ tokens[t] = <<TypeFrom, TypeTo>> =>
       n > 0 /\ variables[n] = world.packageType
  /\ t > 0 /\ tokens[t] = <<LangsFrom, LangsTo>> =>
       n > 1 /\ variables[n] = world.langs /\ variables[n - 1] = world.packageType

RecipeInv ==
  /\ pc \in BeforeVersion => variables = <<>>
  /\ pc \in {"locate", "variables"} => ~package.IsBinary /\ package.Languages = <<>>
  /\ pc = "locate" => delimiters = {} /\ variables = <<>>
  /\ pc = "variables" =>
       IF delimiters = {} THEN variables = <<>>
       ELSE text = BuildEcho /\ delimiters = {"NL"} /\ VariablesBy
  /\ pc = "languages" =>
       /\ text = world.langs /\ delimiters = {","} /\ world.packageType = <<"source">>
       /\ package.IsBinary = FALSE /\ Took(package.Languages)
  /\ pc \in AfterRecipe => RecipeFound

FoundInv == HostInv /\ OneLineInv /\ PackageInv /\ RecipeInv

LEMMA InitFound == Init => FoundInv
<1> SUFFICES ASSUME Init PROVE FoundInv
  OBVIOUS
<1>1. /\ pc = "next" /\ host = <<>> /\ delimiters = {} /\ line = None /\ variables = <<>>
      /\ package = NoPackage
  BY DEF Init
<1>2. package = [f \in Fields |-> package[f]]
  BY <1>1 DEF NoPackage, Fields
<1> QED BY <1>1, <1>2 DEF FoundInv, HostInv, OneLineInv, PackageInv, RecipeInv, AtFirst,
           BeforeVersion, AfterHost, AfterVersion, AfterRecipe, OneLine

LEMMA LeftFound == pc' = "done" => FoundInv'
BY DEF FoundInv, HostInv, OneLineInv, PackageInv, RecipeInv, AtFirst,
       BeforeVersion, AfterHost, AfterVersion, AfterRecipe, OneLine

(* Most steps do not touch what has been found.                            *)
FoundKept == UNCHANGED <<world, host, line, variables, package>>
LEMMA StaysFound ==
  ASSUME UNCHANGED world
  PROVE  /\ UNCHANGED host => SystemFound' = SystemFound /\ ProcessorFound' = ProcessorFound
         /\ UNCHANGED package => VersionFound' = VersionFound /\ RecipeFound' = RecipeFound
         /\ UNCHANGED <<variables, tokens>> => VariablesBy' = VariablesBy
         /\ BuildEcho' = BuildEcho
<1>1. UNCHANGED host => SystemFound' = SystemFound /\ ProcessorFound' = ProcessorFound
  BY DEF SystemFound, ProcessorFound
<1>2. UNCHANGED package => VersionFound' = VersionFound /\ RecipeFound' = RecipeFound
  BY DEF VersionFound, RecipeFound
<1>3. UNCHANGED <<variables, tokens>> => VariablesBy' = VariablesBy
  BY DEF VariablesBy, TypeFrom, TypeTo, LangsFrom, LangsTo
<1>4. BuildEcho' = BuildEcho
  BY DEF BuildEcho
<1> QED BY <1>1, <1>2, <1>3, <1>4

LEMMA MovesFound ==
  ASSUME FoundInv, FoundKept, UNCHANGED <<text, delimiters, tokens>>,
         \/ pc' = pc
         \/ pc \in AtFirst /\ pc' \in AtFirst \cup {"uname -s"}
         \/ pc \in {"mapping", "packages", "extra"} /\ pc' \in {"packages", "extra", "version"}
         \/ pc = "compilers" /\ pc' \in Modes \cup {"NoMode"}
  PROVE  FoundInv'
<1>1. /\ SystemFound' = SystemFound /\ ProcessorFound' = ProcessorFound
      /\ VersionFound' = VersionFound /\ RecipeFound' = RecipeFound
      /\ VariablesBy' = VariablesBy /\ BuildEcho' = BuildEcho
  BY StaysFound DEF FoundKept
<1>2. \A seq : Took(seq)' = Took(seq)
  BY DEF Took, Piece
<1>3. /\ UNCHANGED <<world, host, line, variables, package, text, delimiters>>
      /\ HostInv /\ OneLineInv /\ PackageInv /\ RecipeInv
  BY DEF FoundInv, FoundKept
<1>4. HostInv'
  BY <1>1, <1>3 DEF HostInv, AtFirst, AfterHost, Modes
<1>5. OneLineInv'
  <2>1. Took(IF line = None THEN <<>> ELSE <<line>>)' = Took(IF line = None THEN <<>> ELSE <<line>>)
    BY <1>2, <1>3
  <2>2. pc' = pc => Echo(pc)' = Echo(pc)
    BY <1>3 DEF Echo
  <2> QED BY <1>3, <2>1, <2>2 DEF OneLineInv, OneLine, AtFirst, Modes
<1>6. PackageInv'
  BY <1>1, <1>3 DEF PackageInv, BeforeVersion, AfterVersion, AtFirst, Modes
<1>7. RecipeInv'
  <2>1. Took(package.Languages)' = Took(package.Languages)
    BY <1>2, <1>3
  <2> QED BY <1>1, <1>3, <2>1 DEF RecipeInv, BeforeVersion, AfterVersion, AfterRecipe, AtFirst, Modes
<1> QED BY <1>4, <1>5, <1>6, <1>7 DEF FoundInv

LEMMA OptionsFound == FoundInv /\ Options => FoundInv'
<1> SUFFICES ASSUME FoundInv, Options PROVE FoundInv'
  OBVIOUS
<1>1. FoundKept /\ UNCHANGED splitVars /\ pc \in AtFirst /\ pc' \in AtFirst \cup {"done"}
  BY DEF Options, CallGetopt, GetoptRuns, Set, Ignore, SetVerbose, SetPathType, Goto, Exit,
         AddExtraDirectory, SetMode, SetCompiler, LeaveAtOnce, OptionsDone, Returned,
         mainVars, local, FoundKept, AtFirst
<1> QED BY <1>1, MovesFound, LeftFound DEF splitVars

LEMMA RunModeFound == FoundInv /\ RunMode => FoundInv'
<1> SUFFICES ASSUME FoundInv, RunMode PROVE FoundInv'
  OBVIOUS
<1>1. FoundKept /\ UNCHANGED splitVars /\ (pc' = pc \/ pc' = "done")
  BY DEF RunMode, PrintPrefix, ManifestLine, PrintFile, InstallOne, InstallEnds, Exit,
         local, FoundKept
<1> QED BY <1>1, MovesFound, LeftFound DEF splitVars

LEMMA OthersFound ==
  KnownMode /\ FoundInv /\ ( \/ CheckPaths \/ MapBuildTypes \/ LoadPackages
                            \/ LoadExtra \/ SelectMode \/ SearchCompilers) => FoundInv'
<1> SUFFICES ASSUME KnownMode, FoundInv,
                    CheckPaths \/ MapBuildTypes \/ LoadPackages \/ LoadExtra
                      \/ SelectMode \/ SearchCompilers
             PROVE  FoundInv'
  OBVIOUS
<1> USE DEF Goto, Exit, local, FoundKept, AtFirst, splitVars
<1>1. CASE CheckPaths
  BY <1>1, MovesFound, LeftFound DEF CheckPaths
<1>2. CASE MapBuildTypes
  BY <1>2, MovesFound, LeftFound DEF MapBuildTypes
<1>3. CASE LoadPackages \/ LoadExtra
  BY <1>3, MovesFound, LeftFound DEF LoadPackages, LoadExtra
<1>4. CASE SelectMode
  <2>1. FoundKept /\ UNCHANGED splitVars /\ pc = "extra" /\ pc' \in {"done", "version"}
    BY <1>4 DEF SelectMode, KnownMode, Modes
  <2> QED BY <2>1, MovesFound, LeftFound
<1>5. CASE SearchCompilers
  BY <1>5, MovesFound, LeftFound DEF SearchCompilers, KnownMode
<1> QED BY <1>1, <1>2, <1>3, <1>4, <1>5

LEMMA SplitFound == FoundInv /\ SplitRuns => FoundInv'
<1> SUFFICES ASSUME FoundInv, SplitRuns PROVE FoundInv'
  OBVIOUS
<1>1. UNCHANGED <<text, delimiters, tokens>>
  BY DEF SplitRuns, SplitStep, Advance, NoMore, Scan, ScanEnds
<1>2. FoundKept /\ pc' = pc
  BY DEF SplitRuns, FoundKept, mainVars, local
<1> QED BY <1>1, <1>2, MovesFound

(* Nothing is taken yet, and one more piece is.                            *)
LEMMA TookNone == tokens' = <<>> => Took(<<>>)'
<1> SUFFICES ASSUME tokens' = <<>> PROVE Took(<<>>)'
  OBVIOUS
<1>1. <<>> \in Seq(Seq(Chars)) /\ Len(<<>>) = 0
  BY EmptySeq
<1>2. 1..Len(tokens') = {} /\ Len(tokens') = 0
  OBVIOUS
<1> QED BY <1>1, <1>2 DEF Took

LEMMA TookMore ==
  ASSUME SInv, Get, NEW seq, NEW x, Took(seq), x = Piece(<<last, p>>)
  PROVE  Took(Append(seq, x))'
<1> DEFINE n == Len(tokens)
<1>1. tokens \in Seq(Nat \X Nat) /\ last \in Nat /\ p \in Nat
  BY DEF SInv, InText
<1>2. n \in Nat /\ Len(tokens') = n + 1 /\ tokens'[n + 1] = <<last, p>>
      /\ \A k \in 1..n : tokens'[k] = tokens[k]
  BY <1>1 DEF Get
<1>3. x \in Seq(Chars)
  BY PieceIsText
<1>4. seq \in Seq(Seq(Chars)) /\ Len(seq) = n /\ \A k \in 1..n : seq[k] = Piece(tokens[k])
  BY DEF Took
<1>5. \A t : Piece(t)' = Piece(t)
  BY DEF Get, Piece
<1>6. /\ Append(seq, x) \in Seq(Seq(Chars)) /\ Len(Append(seq, x)) = n + 1
      /\ Append(seq, x)[n + 1] = x /\ \A k \in 1..n : Append(seq, x)[k] = seq[k]
  BY <1>3, <1>4
<1> HIDE DEF n
<1>7. \A k \in 1..(n + 1) : Append(seq, x)[k] = Piece(tokens'[k])
  <2>1. \A k \in 1..(n + 1) : k \in 1..n \/ k = n + 1
    BY <1>2
  <2> QED BY <1>2, <1>4, <1>6, <2>1
<1>8. \A k \in 1..Len(tokens') : Append(seq, x)[k] = Piece(tokens[k])'
  BY <1>2, <1>5, <1>7
<1> QED BY <1>2, <1>6, <1>8 DEF Took

(* The one line of a child.                                                *)
LEMMA LineFound ==
  ASSUME FoundInv, pc \in OneLine, pc' = pc, UNCHANGED <<world, host, variables, package>>,
         IF delimiters' = {} THEN line' = None
         ELSE /\ text' = Echo(pc) /\ delimiters' = {"NL"}
              /\ Took(IF line = None THEN <<>> ELSE <<line>>)'
  PROVE  FoundInv'
<1>1. HostInv /\ PackageInv /\ RecipeInv
  BY DEF FoundInv
<1>2. /\ SystemFound' = SystemFound /\ ProcessorFound' = ProcessorFound
      /\ VersionFound' = VersionFound
  BY StaysFound
<1>3. HostInv'
  BY <1>1, <1>2 DEF HostInv
<1>4. OneLineInv'
  <2>1. Echo(pc)' = Echo(pc)
    BY DEF Echo
  <2> QED BY <2>1 DEF OneLineInv, OneLine, AtFirst
<1>5. PackageInv'
  BY <1>1, <1>2 DEF PackageInv
<1>6. RecipeInv'
  BY <1>1 DEF RecipeInv, OneLine, BeforeVersion, AfterRecipe, AtFirst
<1> QED BY <1>3, <1>4, <1>5, <1>6 DEF FoundInv

LEMMA RunLineFound == FoundInv /\ RunOneLine => FoundInv'
<1> SUFFICES ASSUME FoundInv, RunOneLine PROVE FoundInv'
  OBVIOUS
<1>1. /\ pc \in OneLine /\ line = None
      /\ UNCHANGED <<world, line, host, variables, package>>
  BY DEF RunOneLine, FoundInv, OneLineInv, local
<1>2. CASE Split(Echo(pc), {"NL"}) /\ pc' = pc
  <2>1. text' = Echo(pc) /\ delimiters' = {"NL"} /\ tokens' = <<>>
    BY <1>2 DEF Split
  <2>2. Took(<<>>)'
    BY <2>1, TookNone
  <2> QED BY <1>1, <1>2, <2>1, <2>2, LineFound
<1>3. CASE Exit(1)
  BY <1>3, LeftFound DEF Exit
<1> QED BY <1>2, <1>3 DEF RunOneLine

LEMMA FirstLineFound == SInv /\ WorldKept /\ FoundInv /\ FirstLine => FoundInv'
<1> SUFFICES ASSUME SInv, WorldKept, FoundInv, FirstLine PROVE FoundInv'
  OBVIOUS
<1>1. CASE Exit(1)
  BY <1>1, LeftFound DEF Exit
<1>2. CASE line = None /\ Get /\ line' = Piece(<<last, p>>) /\ UNCHANGED pc
  <2>1. /\ pc \in OneLine /\ UNCHANGED <<world, host, variables, package, text, delimiters>>
        /\ text = Echo(pc) /\ delimiters = {"NL"} /\ Took(<<>>)
    BY <1>2 DEF FirstLine, Get, Splitting, FoundInv, OneLineInv
  <2>2. Took(<<line>>)'
    <3>1. \A y : y = Piece(<<last, p>>) => Took(<<y>>)'
      <4> SUFFICES ASSUME NEW y, y = Piece(<<last, p>>) PROVE Took(<<y>>)'
        OBVIOUS
      <4>1. Took(Append(<<>>, y))'
        BY <1>2, <2>1, TookMore
      <4>2. Append(<<>>, y) = <<y>>
        OBVIOUS
      <4> QED BY <4>1, <4>2
    <3> QED BY <1>2, <3>1
  <2>3. line' # None
    BY <1>2, PieceIsText, ScenarioAssumption
  <2>4. Took(IF line = None THEN <<>> ELSE <<line>>)'
    BY <2>2, <2>3
  <2> QED BY <1>2, <2>1, <2>4, LineFound
<1> QED BY <1>1, <1>2 DEF FirstLine

(* If there was a line, it is the only one.                                *)
LEMMA LineRead ==
  ASSUME SInv, FoundInv, pc \in OneLine, Splitting, phase = "over"
  PROVE  /\ \A r \in Items(Echo(pc), {"NL"}) :
              line # None /\ line = SubSeq(Echo(pc), r[1] + 1, r[2])
         /\ line # None =>
              /\ AreItems(<<line>>, Echo(pc), {"NL"})
              /\ \E r \in Items(Echo(pc), {"NL"}) : line = SubSeq(Echo(pc), r[1] + 1, r[2])
<1> DEFINE seq == IF line = None THEN <<>> ELSE <<line>>
<1>1. text = Echo(pc) /\ delimiters = {"NL"} /\ Took(seq)
  BY DEF Splitting, FoundInv, OneLineInv
<1>2. Items(text, delimiters) = {tokens[i] : i \in 1..Len(tokens)} /\ Len(tokens) \in Nat
  BY TokensAreItems DEF SInv, InText
<1>3. Len(seq) = Len(tokens) /\ \A k \in 1..Len(tokens) : seq[k] = Piece(tokens[k])
  BY <1>1 DEF Took
<1>4. AreItems(seq, text, delimiters)
  BY <1>1, TookItems
<1>5. CASE line = None
  <2>1. Len(tokens) = 0
    BY <1>3, <1>5
  <2> QED BY <1>1, <1>2, <1>5, <2>1
<1>6. CASE line # None
  <2>1. Len(tokens) = 1 /\ line = Piece(tokens[1])
    <3>1. Len(seq) = 1 /\ seq[1] = line
      BY <1>6
    <3> QED BY <1>3, <3>1
  <2>2. Items(text, delimiters) = {tokens[1]}
    BY <1>2, <2>1
  <2> QED BY <1>1, <1>4, <1>6, <2>1, <2>2 DEF Piece
<1> QED BY <1>5, <1>6

LEMMA AppendShort ==
  ASSUME NEW x, NEW y
  PROVE  Append(<<>>, y) = <<y>> /\ Append(<<x>>, y) = <<x, y>>
<1>1. <<x>> \in Seq({x, y}) /\ <<>> \in Seq({x, y}) /\ Len(<<x>>) = 1 /\ <<x>>[1] = x
  OBVIOUS
<1>2. <<x, y>> = [i \in 1..2 |-> IF i = 2 THEN y ELSE <<x>>[i]]
  OBVIOUS
<1>3. Append(<<x>>, y) = [i \in 1..2 |-> IF i = 2 THEN y ELSE <<x>>[i]]
  BY <1>1
<1>4. Append(<<>>, y) = <<y>>
  OBVIOUS
<1> QED BY <1>2, <1>3, <1>4

LEMMA HostFound == SInv /\ FoundInv /\ HostDetected => FoundInv'
<1> SUFFICES ASSUME SInv, FoundInv, HostDetected PROVE FoundInv'
  OBVIOUS
<1>1. /\ pc \in {"uname -s", "uname -m"} /\ Splitting /\ phase = "over"
      /\ delimiters' = {} /\ line' = None
      /\ host' = Append(host, IF pc = "uname -s" THEN Line ELSE Normalize(Line))
      /\ UNCHANGED <<world, variables, package>>
  BY DEF HostDetected, Closed, Split
<1>2. /\ HostInv /\ OneLineInv /\ PackageInv /\ RecipeInv /\ pc \in OneLine
  BY <1>1 DEF FoundInv, OneLine
<1>3. CASE pc' = "done"
  BY <1>3, LeftFound
<1>4. CASE pc = "uname -s" /\ pc' = "uname -m"
  <2>1. host' = <<Line>>
    <3>1. host = <<>> /\ host' = Append(host, Line)
      BY <1>1, <1>2, <1>4 DEF HostInv
    <3> QED BY <3>1, AppendShort
  <2>2. Line # <<>> => AreItems(<<Line>>, world.sysname, {"NL"})
    <3>1. line # None => AreItems(<<line>>, Echo(pc), {"NL"})
      BY <1>1, <1>2, LineRead
    <3>2. Echo(pc) = world.sysname
      BY <1>4 DEF Echo
    <3> QED BY <3>1, <3>2 DEF Line
  <2>3. host'[1] = Line /\ host' = <<host'[1]>>
    BY <2>1
  <2>4. Line # <<>> => SystemFound'
    BY <1>1, <2>2, <2>3 DEF SystemFound
  <2>5. HostInv'
    BY <1>4, <2>3, <2>4 DEF HostInv, AtFirst, AfterHost
  <2> QED BY <1>1, <1>2, <1>4, <2>5 DEF FoundInv, OneLineInv, PackageInv, RecipeInv, OneLine,
             AtFirst, BeforeVersion, AfterVersion, AfterRecipe
<1>5. CASE pc = "uname -m" /\ pc' = "mapping" /\ host[1] # <<>> /\ Line # <<>>
  <2>1. host = <<host[1]>> /\ SystemFound
    BY <1>2, <1>5 DEF HostInv
  <2>2. host' = <<host[1], Normalize(Line)>>
    <3>1. host' = Append(<<host[1]>>, Normalize(Line))
      BY <1>1, <1>5, <2>1
    <3> QED BY <3>1, AppendShort
  <2>3. host'[1] = host[1] /\ host'[2] = Normalize(Line)
    BY <2>2
  <2>4. SystemFound'
    BY <1>1, <2>1, <2>3 DEF SystemFound
  <2>5. Line = line /\ line # None
    BY <1>5 DEF Line
  <2>6. Echo(pc) = world.machine
    BY <1>5 DEF Echo
  <2>7. PICK r \in Items(world.machine, {"NL"}) :
          /\ line = SubSeq(world.machine, r[1] + 1, r[2])
          /\ AreItems(<<line>>, world.machine, {"NL"})
    BY <1>1, <1>2, <2>5, <2>6, LineRead
  <2>8. ProcessorFound'
    BY <1>1, <2>3, <2>5, <2>7 DEF ProcessorFound
  <2>9. HostInv'
    BY <1>5, <2>4, <2>8 DEF HostInv, AtFirst
  <2> QED BY <1>1, <1>2, <1>5, <2>9 DEF FoundInv, OneLineInv, PackageInv, RecipeInv, OneLine,
             AtFirst, BeforeVersion, AfterVersion, AfterRecipe
<1> QED BY <1>1, <1>3, <1>4, <1>5 DEF HostDetected, Goto, Exit

LEMMA VersionReadFound ==
  PrintsWholeLines /\ SInv /\ WorldKept /\ FoundInv /\ VersionRead => FoundInv'
<1> SUFFICES ASSUME PrintsWholeLines, SInv, WorldKept, FoundInv, VersionRead PROVE FoundInv'
  OBVIOUS
<1>1. /\ pc = "version" /\ Splitting /\ phase = "over" /\ delimiters' = {}
      /\ package' = [package EXCEPT !.Version = Line] /\ pc' = "locate"
      /\ UNCHANGED <<world, host, variables>>
  BY DEF VersionRead, Closed, Split, Goto
<1>2. HostInv /\ PackageInv /\ RecipeInv /\ pc \in OneLine
  BY <1>1 DEF FoundInv, OneLine
<1>3. package = NoPackage /\ variables = <<>>
  BY <1>1, <1>2 DEF PackageInv, RecipeInv, BeforeVersion
<1>4. /\ package' = [f \in Fields |-> package'[f]] /\ package'.Version = Line
      /\ ~package'.IsBinary /\ package'.Languages = <<>>
  BY <1>1, <1>3 DEF NoPackage, Fields
<1>5. HostInv'
  BY <1>1, <1>2, StaysFound DEF HostInv, AfterHost, AtFirst
<1>6. VersionFound'
  <2> SUFFICES ASSUME world.defaultVersion # <<>> PROVE Line = world.defaultVersion
    BY <1>1, <1>4 DEF VersionFound
  <2> DEFINE a == Len(world.metaPrints)  b == a + Len(world.defaultVersion)
             e == Echo("version")  r == <<a, b>>
  <2>1. PieceOf(e, {"NL"}, a, b) /\ SubSeq(e, a + 1, b) = world.defaultVersion
    BY VersionLine DEF ItemAt
  <2> HIDE DEF a, b, e
  <2>2. a \in 0..Len(e) /\ b \in 0..Len(e)
    BY <2>1 DEF PieceOf
  <2>3. r \in Items(e, {"NL"}) /\ r[1] = a /\ r[2] = b
    <3>1. r \in (0..Len(e)) \X (0..Len(e)) /\ r[1] = a /\ r[2] = b
      BY <2>2
    <3> QED BY <2>1, <3>1 DEF Items
  <2>4. line # None /\ line = SubSeq(e, r[1] + 1, r[2])
    BY <1>1, <1>2, <2>3, LineRead DEF e
  <2> QED BY <2>1, <2>3, <2>4 DEF Line
<1>7. PackageInv'
  BY <1>1, <1>4, <1>6 DEF PackageInv, BeforeVersion, AtFirst
<1>8. RecipeInv'
  BY <1>1, <1>3, <1>4 DEF RecipeInv, BeforeVersion, AtFirst, AfterRecipe
<1>9. OneLineInv'
  BY <1>1 DEF OneLineInv, AtFirst, OneLine
<1> QED BY <1>5, <1>7, <1>8, <1>9 DEF FoundInv

LEMMA LocateFound == FoundInv /\ Locate => FoundInv'
<1> SUFFICES ASSUME FoundInv, Locate, pc' # "done" PROVE FoundInv'
  BY LeftFound
<1>1. /\ pc = "locate" /\ pc' = "variables"
      /\ UNCHANGED <<world, host, line, variables, splitVars>>
  BY Zenon DEF Locate, Goto, Exit
<1>2. PICK f : package' = [package EXCEPT !.BuildFile = f]
  BY Zenon DEF Locate, Exit
<1>3. HostInv /\ PackageInv /\ RecipeInv
  BY DEF FoundInv
<1>4. package = [f2 \in Fields |-> package[f2]]
  BY <1>1, <1>3 DEF PackageInv
<1>5. /\ package' = [f2 \in Fields |-> package'[f2]] /\ package'.Version = package.Version
      /\ package'.IsBinary = package.IsBinary /\ package'.Languages = package.Languages
  BY <1>2, <1>4 DEF Fields
<1>6. VersionFound'
  BY <1>1, <1>3, <1>5 DEF PackageInv, VersionFound, AfterVersion
<1>7. HostInv'
  BY <1>1, <1>3, StaysFound DEF HostInv, AfterHost, AtFirst
<1>8. PackageInv'
  BY <1>1, <1>5, <1>6 DEF PackageInv, BeforeVersion, AtFirst
<1>9. RecipeInv'
  BY <1>1, <1>3, <1>5 DEF RecipeInv, BeforeVersion, AtFirst, AfterRecipe, splitVars
<1>10. OneLineInv'
  BY <1>1 DEF OneLineInv, AtFirst, OneLine
<1> QED BY <1>7, <1>8, <1>9, <1>10 DEF FoundInv

(* The variables, from the line of PACKAGE_TYPE and that of LANGS.         *)
LEMMA VariablesFound ==
  ASSUME FoundInv, pc = "variables", pc' = pc, UNCHANGED <<world, host, package>>,
         IF delimiters' = {} THEN variables' = <<>>
         ELSE text' = BuildEcho /\ delimiters' = {"NL"} /\ VariablesBy'
  PROVE  FoundInv'
<1>1. HostInv /\ PackageInv /\ RecipeInv
  BY DEF FoundInv
<1>2. /\ SystemFound' = SystemFound /\ ProcessorFound' = ProcessorFound
      /\ VersionFound' = VersionFound /\ BuildEcho' = BuildEcho
  BY StaysFound
<1>3. HostInv'
  BY <1>1, <1>2 DEF HostInv
<1>4. OneLineInv'
  BY DEF OneLineInv, OneLine, AtFirst
<1>5. PackageInv'
  BY <1>1, <1>2 DEF PackageInv
<1>6. RecipeInv'
  BY <1>1, <1>2 DEF RecipeInv, BeforeVersion, AfterRecipe, AtFirst
<1> QED BY <1>3, <1>4, <1>5, <1>6 DEF FoundInv

LEMMA BuildFileFound == FoundInv /\ RunBuildFile => FoundInv'
<1> SUFFICES ASSUME FoundInv, RunBuildFile PROVE FoundInv'
  OBVIOUS
<1>1. pc = "variables" /\ UNCHANGED <<world, host, variables, package>>
  BY DEF RunBuildFile, local
<1>2. CASE Split(BuildEcho, {"NL"}) /\ pc' = pc
  <2>1. text' = BuildEcho /\ delimiters' = {"NL"} /\ Len(tokens') = 0
    BY <1>2 DEF Split
  <2>2. VariablesBy'
    BY <2>1 DEF VariablesBy
  <2> QED BY <1>1, <1>2, <2>1, <2>2, VariablesFound
<1>3. CASE Exit(1)
  BY <1>3, LeftFound DEF Exit
<1> QED BY <1>2, <1>3 DEF RunBuildFile

(* What has been returned when a piece begins at n or the text ends: the   *)
(* piece from f to e with e + 1 = n is the last of it.                     *)
LEMMA LastReturned ==
  ASSUME SInv, NEW f \in Nat, NEW e \in Nat, f < e, IsPiece(f, e),
         \/ phase = "token" /\ last = e + 1
         \/ phase = "over" /\ Len(text) = e + 1
  PROVE  Len(tokens) > 0 /\ tokens[Len(tokens)] = <<f, e>>
<1> DEFINE n == Len(tokens)
<1>1. n \in Nat /\ Len(text) \in Nat /\ last \in Nat /\ last <= Len(text)
      /\ \A i \in 1..n : tokens[i] \in Nat \X Nat
  BY DEF SInv, InText
<1>2. f \in 0..Len(text) /\ e \in 0..Len(text)
  BY DEF IsPiece, PieceOf
<1>3. PICK i \in 1..n : tokens[i] = <<f, e>>
  <2>1. CASE phase = "token"
    <3>1. Recorded(last) /\ f < last
      BY <2>1 DEF SInv, Complete
    <3> QED BY <1>2, <3>1 DEF Recorded, RecordedIn, IsPiece
  <2>2. CASE phase = "over"
    <3>1. Recorded(Len(text)) /\ f < Len(text)
      BY <2>2 DEF SInv, Complete
    <3> QED BY <1>2, <3>1 DEF Recorded, RecordedIn, IsPiece
  <2> QED BY <2>1, <2>2
<1>4. IsPiece(tokens[n][1], tokens[n][2]) /\ n \in 1..n
  BY <1>1, <1>3 DEF SInv, Pieces
<1>5. tokens[n][1] < tokens[n][2] /\ tokens[n][2] <= Len(text)
  BY <1>4 DEF IsPiece, PieceOf
<1>6. i < n => e < tokens[n][1]
  <2>1. i < n => tokens[i][2] < tokens[n][1]
    BY <1>1, <1>4 DEF SInv, Pieces
  <2> QED BY <1>3, <2>1
<1>7. phase = "token" => tokens[n][2] < last
  BY <1>4 DEF SInv, Pieces, Bound
<1>8. i = n
  BY <1>1, <1>4, <1>5, <1>6, <1>7
<1> QED BY <1>1, <1>3, <1>8

LEMMA VariableIs ==
  ASSUME WorldKept, PrintsWholeLines, NEW b \in {world.packageType, world.langs},
         SubSeq(text, last + 1, p) = b \o <<"@">>, VariableLine
  PROVE  variables' = Append(variables, b)
<1> DEFINE v == Piece(<<last, p>>)
<1>1. b \in Seq(Chars) /\ "@" \in Chars
  BY TextsOfWorld DEF Texts, Assigned
<1>2. v = b \o <<"@">>
  BY DEF Piece
<1>3. variables' = IF v[Len(v)] = "@" THEN Append(variables, SubSeq(v, 1, Len(v) - 1))
                   ELSE variables
  BY Zenon DEF VariableLine
<1> HIDE DEF v
<1>4. v[Len(v)] = "@" /\ SubSeq(v, 1, Len(v) - 1) = b
  BY <1>1, <1>2, WithoutLast
<1> QED BY <1>3, <1>4

LEMMA VariableFound ==
  PrintsWholeLines /\ TextInv /\ WorldKept /\ FoundInv /\ VariableLine => FoundInv'
<1> SUFFICES ASSUME PrintsWholeLines, TextInv, WorldKept, FoundInv, VariableLine
             PROVE  FoundInv'
  OBVIOUS
<1> DEFINE n == Len(tokens)  m == Len(variables)
<1>1. /\ pc = "variables" /\ pc' = pc /\ Get /\ phase = "token" /\ delimiters # {}
      /\ UNCHANGED <<world, host, package, text, delimiters>>
  BY DEF VariableLine, Get, Splitting
<1>2. SInv /\ variables \in Seq(Seq(Chars)) /\ m \in Nat
  BY DEF TextInv
<1>3. text = BuildEcho /\ delimiters = {"NL"} /\ VariablesBy
  BY <1>1 DEF FoundInv, RecipeInv
<1>4. /\ tokens \in Seq(Nat \X Nat) /\ last \in Nat /\ p \in Nat
      /\ tokens' = Append(tokens, <<last, p>>)
  BY <1>1, <1>2 DEF SInv, InText, Get
<1>5. n \in Nat /\ Len(tokens') = n + 1 /\ tokens'[n + 1] = <<last, p>>
  BY <1>4
<1>6. /\ ItemAt(text, "NL", TypeFrom, TypeTo, world.packageType \o <<"@">>)
      /\ ItemAt(text, "NL", LangsFrom, LangsTo, world.langs \o <<"@">>)
      /\ TypeFrom \in Nat /\ TypeTo \in Nat /\ TypeFrom < TypeTo /\ LangsFrom = TypeTo + 1
  BY <1>3, RecipeLines DEF LangsFrom
<1>7. TypeFrom' = TypeFrom /\ TypeTo' = TypeTo /\ LangsFrom' = LangsFrom /\ LangsTo' = LangsTo
  BY <1>1 DEF TypeFrom, TypeTo, LangsFrom, LangsTo
<1> HIDE DEF n, m
<1>8. ASSUME NEW b \in {world.packageType, world.langs},
             SubSeq(text, last + 1, p) = b \o <<"@">>
      PROVE  /\ variables' = Append(variables, b) /\ Len(variables') = m + 1
             /\ variables'[m + 1] = b /\ \A i \in 1..m : variables'[i] = variables[i]
  <2>1. variables' = Append(variables, b)
    BY <1>8, VariableIs
  <2> QED BY <1>2, <2>1 DEF m
<1>9. CASE last = TypeFrom /\ p = TypeTo
  <2>1. Len(variables') = m + 1 /\ variables'[m + 1] = world.packageType
    BY <1>6, <1>8, <1>9 DEF ItemAt
  <2>2. last # LangsFrom
    BY <1>6, <1>9
  <2>3. VariablesBy'
    BY <1>1, <1>2, <1>5, <1>7, <2>1, <2>2 DEF VariablesBy
  <2> QED BY <1>1, <1>3, <2>3, VariablesFound
<1>10. CASE last = LangsFrom /\ p = LangsTo
  <2>1. /\ Len(variables') = m + 1 /\ variables'[m + 1] = world.langs
        /\ \A i \in 1..m : variables'[i] = variables[i]
    BY <1>6, <1>8, <1>10 DEF ItemAt
  <2>2. n > 0 /\ tokens[n] = <<TypeFrom, TypeTo>>
    <3>1. IsPiece(TypeFrom, TypeTo)
      BY <1>3, <1>6 DEF ItemAt, IsPiece
    <3> QED BY <1>1, <1>2, <1>6, <1>10, <3>1, LastReturned DEF n
  <2>3. m > 0 /\ variables[m] = world.packageType
    BY <1>3, <2>2 DEF VariablesBy, n, m
  <2>4. last # TypeFrom
    BY <1>6, <1>10
  <2>5. m + 1 > 1 /\ variables'[(m + 1) - 1] = world.packageType
    BY <1>2, <2>1, <2>3
  <2>6. VariablesBy'
    BY <1>1, <1>2, <1>5, <1>7, <2>1, <2>4, <2>5 DEF VariablesBy
  <2> QED BY <1>1, <1>3, <2>6, VariablesFound
<1>11. CASE ~(last = TypeFrom /\ p = TypeTo) /\ ~(last = LangsFrom /\ p = LangsTo)
  <2>1. VariablesBy'
    BY <1>5, <1>7, <1>11 DEF VariablesBy
  <2> QED BY <1>1, <1>3, <2>1, VariablesFound
<1> QED BY <1>9, <1>10, <1>11

LEMMA VariablesAre ==
  ASSUME PrintsWholeLines, SInv, WorldKept, FoundInv, pc = "variables", Splitting,
         phase = "over", Len(variables) = 2
  PROVE  variables[1] = world.packageType /\ variables[2] = world.langs
<1>1. text = BuildEcho /\ delimiters = {"NL"} /\ VariablesBy
  BY DEF FoundInv, RecipeInv, Splitting
<1>2. /\ ItemAt(text, "NL", LangsFrom, LangsTo, world.langs \o <<"@">>)
      /\ Len(text) = LangsTo + 1 /\ LangsFrom \in Nat /\ LangsTo \in Nat /\ LangsFrom < LangsTo
  BY <1>1, RecipeLines
<1>3. IsPiece(LangsFrom, LangsTo)
  BY <1>1, <1>2 DEF ItemAt, IsPiece
<1>4. Len(tokens) > 0 /\ tokens[Len(tokens)] = <<LangsFrom, LangsTo>>
  BY <1>2, <1>3, LastReturned
<1>5. variables[2] = world.langs /\ variables[2 - 1] = world.packageType
  BY <1>1, <1>4 DEF VariablesBy
<1> QED BY <1>5

LEMMA VariablesReadFound ==
  PrintsWholeLines /\ SInv /\ WorldKept /\ FoundInv /\ VariablesRead => FoundInv'
<1> SUFFICES ASSUME PrintsWholeLines, SInv, WorldKept, FoundInv, VariablesRead PROVE FoundInv'
  OBVIOUS
<1>1. /\ pc = "variables" /\ Splitting /\ phase = "over"
      /\ UNCHANGED <<world, host, line, variables>>
  BY DEF VariablesRead
<1>2. HostInv /\ PackageInv /\ RecipeInv
  BY DEF FoundInv
<1>3. package = [f \in Fields |-> package[f]] /\ ~package.IsBinary /\ package.Languages = <<>>
  BY <1>1, <1>2 DEF PackageInv, RecipeInv
<1>4. CASE pc' = "done"
  BY <1>4, LeftFound
<1>5. CASE /\ Len(variables) = 2 /\ variables[1] = <<"binary">> /\ pc' = "compilers"
           /\ package' = [package EXCEPT !.IsBinary = TRUE]
  <2>1. world.packageType = <<"binary">>
    BY <1>1, <1>5, VariablesAre
  <2>2. /\ package' = [f \in Fields |-> package'[f]] /\ package'.IsBinary = TRUE
        /\ package'.Version = package.Version
    BY <1>3, <1>5 DEF Fields
  <2>3. RecipeFound'
    BY <1>1, <2>1, <2>2 DEF RecipeFound
  <2>4. VersionFound'
    BY <1>1, <1>2, <2>2 DEF PackageInv, VersionFound, AfterVersion
  <2>5. HostInv'
    BY <1>1, <1>2, <1>5, StaysFound DEF HostInv, AfterHost, AtFirst
  <2>6. PackageInv'
    BY <1>5, <2>2, <2>4 DEF PackageInv, BeforeVersion, AtFirst
  <2>7. RecipeInv' /\ OneLineInv'
    BY <1>5, <2>3 DEF RecipeInv, BeforeVersion, AtFirst, AfterRecipe, OneLineInv, OneLine
  <2> QED BY <2>5, <2>6, <2>7 DEF FoundInv
<1>6. CASE /\ Len(variables) = 2 /\ variables[1] = <<"source">> /\ pc' = "languages"
           /\ Split(variables[2], {","}) /\ UNCHANGED package
  <2>1. /\ world.packageType = <<"source">> /\ text' = world.langs /\ delimiters' = {","}
        /\ tokens' = <<>>
    BY <1>1, <1>6, VariablesAre DEF Split
  <2>2. Took(package.Languages)'
    <3>1. package'.Languages = <<>>
      BY <1>3, <1>6
    <3> QED BY <2>1, <3>1, TookNone
  <2>3. HostInv'
    BY <1>1, <1>2, <1>6, StaysFound DEF HostInv, AfterHost, AtFirst
  <2>4. PackageInv'
    BY <1>1, <1>2, <1>6, StaysFound DEF PackageInv, BeforeVersion, AtFirst, AfterVersion
  <2>5. package'.IsBinary = FALSE
    <3>1. package.IsBinary = FALSE
      BY <1>3
    <3> QED BY <1>6, <3>1
  <2>6. RecipeInv' /\ OneLineInv'
    BY <1>1, <1>6, <2>1, <2>2, <2>5
       DEF RecipeInv, BeforeVersion, AtFirst, AfterRecipe, OneLineInv, OneLine
  <2> QED BY <2>3, <2>4, <2>6 DEF FoundInv
<1> QED BY <1>4, <1>5, <1>6 DEF VariablesRead, Goto, Exit

LEMMA LanguageFound == SInv /\ FoundInv /\ AddLanguage => FoundInv'
<1> SUFFICES ASSUME SInv, FoundInv, AddLanguage, pc' # "done" PROVE FoundInv'
  BY LeftFound
<1> DEFINE x == Piece(<<last, p>>)
<1>1. /\ pc = "languages" /\ pc' = pc /\ Get
      /\ package' = [package EXCEPT !.Languages = Append(@, x)]
      /\ UNCHANGED <<world, host, line, variables, text, delimiters>>
  BY Zenon DEF AddLanguage, Get, Exit
<1>2. HostInv /\ PackageInv /\ RecipeInv
  BY DEF FoundInv
<1>3. /\ package = [f \in Fields |-> package[f]] /\ package.IsBinary = FALSE
      /\ text = world.langs /\ delimiters = {","} /\ world.packageType = <<"source">>
      /\ Took(package.Languages)
  BY <1>1, <1>2 DEF PackageInv, RecipeInv
<1> HIDE DEF x
<1>4. /\ package' = [f \in Fields |-> package'[f]] /\ package'.IsBinary = FALSE
      /\ package'.Version = package.Version
      /\ package'.Languages = Append(package.Languages, x)
  BY <1>1, <1>3 DEF Fields
<1>5. \A s, y : Took(s) /\ y = x => Took(Append(s, y))'
  BY <1>1, TookMore DEF x
<1>6. Took(package.Languages)'
  BY <1>3, <1>4, <1>5
<1>7. VersionFound'
  BY <1>1, <1>2, <1>4 DEF PackageInv, VersionFound, AfterVersion
<1>8. HostInv'
  BY <1>1, <1>2, StaysFound DEF HostInv
<1>9. PackageInv'
  BY <1>1, <1>4, <1>7 DEF PackageInv, BeforeVersion, AtFirst
<1>10. RecipeInv' /\ OneLineInv'
  BY <1>1, <1>3, <1>4, <1>6
     DEF RecipeInv, BeforeVersion, AtFirst, AfterRecipe, OneLineInv, OneLine
<1> QED BY <1>8, <1>9, <1>10 DEF FoundInv

LEMMA LanguagesReadFound == SInv /\ FoundInv /\ LanguagesRead => FoundInv'
<1> SUFFICES ASSUME SInv, FoundInv, LanguagesRead, pc' # "done" PROVE FoundInv'
  BY LeftFound
<1>1. /\ pc = "languages" /\ phase = "over" /\ pc' = "compilers"
      /\ UNCHANGED <<world, host, line, variables, package>>
  BY DEF LanguagesRead, Goto, Exit, local
<1>2. HostInv /\ PackageInv /\ RecipeInv
  BY DEF FoundInv
<1>3. RecipeFound
  <2>1. /\ package.IsBinary = FALSE /\ world.packageType = <<"source">>
        /\ text = world.langs /\ delimiters = {","} /\ Took(package.Languages)
    BY <1>1, <1>2 DEF RecipeInv
  <2>2. AreItems(package.Languages, world.langs, {","})
    BY <1>1, <2>1, TookItems
  <2>3. <<"source">> # <<"binary">>
    OBVIOUS
  <2> QED BY <2>1, <2>2, <2>3 DEF RecipeFound
<1>4. HostInv'
  BY <1>1, <1>2, StaysFound DEF HostInv, AfterHost, AtFirst
<1>5. PackageInv'
  BY <1>1, <1>2, StaysFound DEF PackageInv, BeforeVersion, AtFirst, AfterVersion
<1>6. RecipeInv' /\ OneLineInv'
  BY <1>1, <1>3, StaysFound
     DEF RecipeInv, BeforeVersion, AtFirst, AfterRecipe, OneLineInv, OneLine
<1> QED BY <1>4, <1>5, <1>6 DEF FoundInv

LEMMA NextFound ==
  ASSUME PrintsWholeLines, TextInv, WorldKept, KnownMode, FoundInv, [Next]_vars
  PROVE  FoundInv'
<1>1. SInv
  BY DEF TextInv
<1>2. CASE UNCHANGED vars
  BY <1>2, MovesFound DEF vars, mainVars, splitVars, local, FoundKept
<1>3. CASE Options
  BY <1>3, OptionsFound
<1>4. CASE Startup
  BY <1>1, <1>4, OthersFound, RunLineFound, SplitFound, FirstLineFound, HostFound DEF Startup
<1>5. CASE Inspect
  BY <1>1, <1>5, OthersFound, VersionReadFound, LocateFound, BuildFileFound, VariableFound,
     VariablesReadFound, LanguageFound, LanguagesReadFound DEF Inspect
<1>6. CASE RunMode
  BY <1>6, RunModeFound
<1> QED BY <1>2, <1>3, <1>4, <1>5, <1>6 DEF Next

LEMMA FoundIsAssigned == FoundInv => InspectedAsAssigned
<1> SUFFICES ASSUME FoundInv, pc \in AfterRecipe
             PROVE  VersionFound /\ RecipeFound /\ SystemFound /\ ProcessorFound
  BY DEF InspectedAsAssigned, AfterRecipe, VersionFound, RecipeFound, SystemFound,
         ProcessorFound
<1> QED BY DEF FoundInv, HostInv, PackageInv, RecipeInv, AfterRecipe, AfterHost, AfterVersion

(* Whatever recipes print before their variables, in whole lines, and      *)
(* however the children's output is cut: a package that main goes on with  *)
(* has the version, the type and the languages that its recipe assigns,    *)
(* and the host is what each uname printed as its only line                *)
(* (loadSingleVariable and loadVariables, main.cpp:104-161).               *)
THEOREM InspectsAsAssigned ==
  ASSUME PrintsWholeLines
  PROVE  Spec => []InspectedAsAssigned
<1> DEFINE Inv == TextInv /\ WorldKept /\ KnownMode /\ FoundInv
<1>1. Init => Inv
  <2> SUFFICES ASSUME Init PROVE Inv
    OBVIOUS
  <2>1. text \in Seq(Chars) /\ variables \in Seq(Seq(Chars))
    BY EmptySeq DEF Init
  <2>2. SInv
    BY <2>1, FreshInv DEF Init
  <2> QED BY <2>1, <2>2, InitFound DEF Init, TextInv, WorldKept, KnownMode
<1>2. Inv /\ [Next]_vars => Inv'
  <2> SUFFICES ASSUME TextInv, WorldKept, KnownMode, FoundInv, [Next]_vars PROVE Inv'
    OBVIOUS
  <2>1. TextInv' /\ WorldKept'
    BY NextKeepsText
  <2>2. KnownMode'
    BY ModeStaysKnown
  <2>3. FoundInv'
    BY NextFound
  <2> QED BY <2>1, <2>2, <2>3
<1>3. Inv => InspectedAsAssigned
  BY FoundIsAssigned
<1> QED BY <1>1, <1>2, <1>3, PTL DEF Spec

=============================================================================
