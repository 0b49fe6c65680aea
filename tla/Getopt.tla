-------------------------------- MODULE Getopt --------------------------------
(***************************************************************************)
(* getopt_long of src/msvc/getopt.c, as main uses it: an empty string of   *)
(* short options and a table of long ones.  (With another C library than   *)
(* that of Windows its own getopt_long, the same code, is used.)  argv[0]  *)
(* is left out: index i of the code is position i here.                    *)
(***************************************************************************)
EXTENDS Integers, Sequences, SequencesExt

CONSTANTS
  LongOpts,   \* the option table: records with name, hasArg and val
  None

(* No option is given twice, under one name or with one value, and nothing *)
(* that getopt stores is nothing.                                          *)
ASSUME TableAssumption ==
  /\ None \notin {"end", "?", "REQUIRE_ORDER", "PERMUTE"}
  /\ LongOpts \in Seq([name : Seq(STRING), hasArg : BOOLEAN, val : STRING])
  /\ \A i \in 1..Len(LongOpts) : LongOpts[i] # None /\ LongOpts[i].val \notin {"end", "?"}
  /\ \A i, j \in 1..Len(LongOpts) : i # j =>
       LongOpts[i].name # LongOpts[j].name /\ LongOpts[i].val # LongOpts[j].val

(* An element of argv: a plain word (or a single dash), "--", a cluster of *)
(* short options, or --name or --name=eq; texts are cut into pieces where  *)
(* the program tells them apart.                                           *)
Elements ==
  [kind : {"word", "dashes", "short", "long"}, name : Seq(STRING),
   eq : Seq(STRING) \cup {None}]

(* An element as it is taken for the argument of the option before it.     *)
Str(e) ==
  CASE e.kind = "word"   -> e.name
    [] e.kind = "dashes" -> <<"--">>
    [] e.kind = "short"  -> <<"-">> \o e.name
    [] e.kind = "long"   -> <<"--">> \o e.name \o
                            IF e.eq = None THEN <<>> ELSE <<"=">> \o e.eq

VARIABLES
  given,           \* argv as the program was started (history)
  argv,            \* argv as getopt has permuted it
  posixlyCorrect,  \* POSIXLY_CORRECT is in the environment
  ordering,        \* None until the first call
  optind, firstNonopt, lastNonopt,
  bottom, top,     \* of exchange
  optarg, ret,     \* what the caller gets
  at,              \* where the call is, "caller" if there is none
  results          \* history: every <<ret, optarg>> so far

argVars    == <<argv, given, posixlyCorrect>>
rangeVars  == <<optind, firstNonopt, lastNonopt>>
swapVars   == <<bottom, top>>
resultVars == <<optarg, ret, results>>
getoptVars == <<argVars, ordering, rangeVars, swapVars, resultVars, at>>

argc == Len(argv) + 1
NonOption(e) == e.kind = "word"

GetoptInit(args, posix) ==
  /\ given = args /\ argv = args
  /\ posixlyCorrect = posix
  /\ ordering = None
  /\ optind = 1 /\ firstNonopt = 0 /\ lastNonopt = 0
  /\ bottom = 0 /\ top = 0
  /\ optarg = None /\ ret = None
  /\ at = "caller" /\ results = <<>>

-----------------------------------------------------------------------------
(* _getopt_initialize at the first call; no short option is pending, for   *)
(* the caller gives up at the first one.                                   *)
Order == IF posixlyCorrect THEN "REQUIRE_ORDER" ELSE "PERMUTE"
Call ==
  /\ at = "caller" /\ ret \notin {"end", "?"}
  /\ ordering' = Order
  /\ firstNonopt' = IF ordering = None THEN optind ELSE firstNonopt
  /\ lastNonopt' = IF ordering = None THEN optind ELSE lastNonopt
  /\ at' = IF Order = "PERMUTE" THEN "permute" ELSE "dashes"
  /\ optarg' = None
  /\ UNCHANGED <<argVars, optind, swapVars, ret, results>>

(* Options have followed non-options: they are exchanged.                  *)
Exchange(label, end) ==
  /\ bottom' = firstNonopt /\ top' = end
  /\ at' = label

Permute ==
  /\ at = "permute"
  /\ \/ /\ firstNonopt # lastNonopt /\ lastNonopt # optind
        /\ Exchange("exchange", optind) /\ UNCHANGED firstNonopt
     \/ /\ firstNonopt = lastNonopt /\ lastNonopt # optind
        /\ firstNonopt' = optind /\ at' = "skip" /\ UNCHANGED swapVars
     \/ /\ lastNonopt = optind
        /\ at' = "skip" /\ UNCHANGED <<firstNonopt, swapVars>>
  /\ UNCHANGED <<argVars, ordering, optind, lastNonopt, resultVars>>

Exchanging == at \in {"exchange", "exchangeLast"}

(* The blocks of len elements at i and at j change places.                 *)
Swapped(i, j, len) ==
  [k \in 1..Len(argv) |->
     CASE k \in i..(i + len - 1) -> argv[k - i + j]
       [] k \in j..(j + len - 1) -> argv[k - j + i]
       [] OTHER                  -> argv[k]]

(* Mutated form of SwapBottom: the moved part is not excluded from further *)
(* swapping.                                                               *)
SwapBottomAgain ==
  /\ Exchanging /\ top > lastNonopt /\ lastNonopt > bottom
  /\ top - lastNonopt > lastNonopt - bottom
  /\ LET len == lastNonopt - bottom IN argv' = Swapped(bottom, top - len, len)
  /\ UNCHANGED <<given, posixlyCorrect, ordering, rangeVars, swapVars, resultVars, at>>

(* The non-options are the shorter part: they go to the far end.           *)
SwapBottom ==
  /\ Exchanging /\ top > lastNonopt /\ lastNonopt > bottom
  /\ top - lastNonopt > lastNonopt - bottom
  /\ LET len == lastNonopt - bottom IN
       /\ argv' = Swapped(bottom, top - len, len)
       /\ top' = top - len
  /\ UNCHANGED <<given, posixlyCorrect, ordering, rangeVars, bottom, resultVars, at>>

(* Mutated form of SwapTop: swaps with the far end of the non-options.     *)
SwapTopFar ==
  /\ Exchanging /\ top > lastNonopt /\ lastNonopt > bottom
  /\ top - lastNonopt <= lastNonopt - bottom
  /\ LET len == top - lastNonopt IN
       /\ argv' = Swapped(lastNonopt - len, lastNonopt, len)
       /\ bottom' = bottom + len
  /\ UNCHANGED <<given, posixlyCorrect, ordering, rangeVars, top, resultVars, at>>

(* The options are: they go to the front.                                  *)
SwapTop ==
  /\ Exchanging /\ top > lastNonopt /\ lastNonopt > bottom
  /\ top - lastNonopt <= lastNonopt - bottom
  /\ LET len == top - lastNonopt IN
       /\ argv' = Swapped(bottom, lastNonopt, len)
       /\ bottom' = bottom + len
  /\ UNCHANGED <<given, posixlyCorrect, ordering, rangeVars, top, resultVars, at>>

Exchanged ==
  /\ Exchanging /\ ~(top > lastNonopt /\ lastNonopt > bottom)
  /\ firstNonopt' = firstNonopt + (optind - lastNonopt)
  /\ lastNonopt' = optind
  /\ bottom' = 0 /\ top' = 0
  /\ at' = IF at = "exchange" THEN "skip" ELSE "last"
  /\ UNCHANGED <<argVars, ordering, optind, resultVars>>

SkipNonOption ==
  /\ at = "skip"
  /\ \/ /\ optind < argc /\ NonOption(argv[optind])
        /\ optind' = optind + 1 /\ UNCHANGED <<lastNonopt, at>>
     \/ /\ ~(optind < argc /\ NonOption(argv[optind]))
        /\ lastNonopt' = optind /\ at' = "dashes" /\ UNCHANGED optind
  /\ UNCHANGED <<argVars, ordering, firstNonopt, swapVars, resultVars>>

(* "--" is skipped like an option and ends the options.                    *)
AtDashes == optind # argc /\ argv[optind].kind = "dashes"
DashDash ==
  /\ at = "dashes"
  /\ \/ /\ AtDashes /\ optind' = optind + 1
        /\ \/ /\ firstNonopt # lastNonopt /\ lastNonopt # optind + 1
              /\ Exchange("exchangeLast", optind + 1) /\ UNCHANGED firstNonopt
           \/ /\ firstNonopt = lastNonopt
              /\ firstNonopt' = optind + 1
              /\ at' = "last" /\ UNCHANGED swapVars
     \/ ~AtDashes /\ at' = "scan" /\ UNCHANGED <<optind, firstNonopt, swapVars>>
  /\ UNCHANGED <<argVars, ordering, lastNonopt, resultVars>>

TakeRest ==
  /\ at = "last" /\ at' = "scan"
  /\ lastNonopt' = argc /\ optind' = argc
  /\ UNCHANGED <<argVars, ordering, firstNonopt, swapVars, resultVars>>

Return(val, arg) ==
  /\ at' = "caller"
  /\ ret' = val /\ optarg' = arg
  /\ results' = Append(results, <<val, arg>>)

(* All elements are done, or the first non-option ends the scan.           *)
EndOfOptions ==
  /\ at = "scan" /\ Return("end", None)
  /\ \/ /\ optind = argc
        /\ optind' = IF firstNonopt # lastNonopt THEN firstNonopt ELSE optind
     \/ /\ optind # argc /\ NonOption(argv[optind])
        /\ ordering = "REQUIRE_ORDER" /\ UNCHANGED optind
  /\ UNCHANGED <<argVars, ordering, firstNonopt, lastNonopt, swapVars>>

-----------------------------------------------------------------------------
(* The search of the table: an exact match, else the first abbreviated     *)
(* one, which another one makes ambiguous unless it is the same option.    *)
Similar(name) == {i \in 1..Len(LongOpts) : IsPrefix(name, LongOpts[i].name)}
Exact(name)   == {i \in Similar(name) : LongOpts[i].name = name}

Found(name) ==
  LET best == IF Exact(name) # {} THEN Exact(name) ELSE Similar(name)
  IN IF best = {} THEN None ELSE LongOpts[CHOOSE i \in best : \A j \in best : i <= j]

(* Mutated form of Ambiguous: an exact match does not count more.          *)
AmbiguousThoughExact(name) ==
  \E i \in Similar(name) :
    LongOpts[i].hasArg # Found(name).hasArg \/ LongOpts[i].val # Found(name).val

Ambiguous(name) ==
  /\ Exact(name) = {}
  /\ \E i \in Similar(name) :
       \/ LongOpts[i].hasArg # Found(name).hasArg
       \/ LongOpts[i].val # Found(name).val

AtLong == at = "scan" /\ optind # argc /\ argv[optind].kind = "long"
Element == argv[optind]

RefuseOption ==
  /\ AtLong
  /\ Found(Element.name) = None \/ Ambiguous(Element.name)
  /\ optind' = optind + 1 /\ Return("?", None)
  /\ UNCHANGED <<argVars, ordering, firstNonopt, lastNonopt, swapVars>>

(* --name=value, to an option that takes none and to one that does.        *)
InlineArgument ==
  /\ AtLong /\ Element.eq # None
  /\ Found(Element.name) # None /\ ~Ambiguous(Element.name)
  /\ optind' = optind + 1
  /\ IF Found(Element.name).hasArg
       THEN Return(Found(Element.name).val, Element.eq)
       ELSE Return("?", None)
  /\ UNCHANGED <<argVars, ordering, firstNonopt, lastNonopt, swapVars>>

(* Mutated form of NextArgument: a missing argument is stepped over.       *)
NextArgumentCounts ==
  /\ AtLong /\ Element.eq = None
  /\ Found(Element.name) # None /\ ~Ambiguous(Element.name)
  /\ Found(Element.name).hasArg
  /\ optind' = optind + 2
  /\ \/ /\ optind + 1 < argc
        /\ Return(Found(Element.name).val, Str(argv[optind + 1]))
     \/ /\ optind + 1 = argc /\ Return("?", None)
  /\ UNCHANGED <<argVars, ordering, firstNonopt, lastNonopt, swapVars>>

(* The argument is the next element, whatever that looks like.             *)
NextArgument ==
  /\ AtLong /\ Element.eq = None
  /\ Found(Element.name) # None /\ ~Ambiguous(Element.name)
  /\ Found(Element.name).hasArg
  /\ \/ /\ optind + 1 < argc /\ optind' = optind + 2
        /\ Return(Found(Element.name).val, Str(argv[optind + 1]))
     \/ /\ optind + 1 = argc /\ optind' = optind + 1
        /\ Return("?", None)
  /\ UNCHANGED <<argVars, ordering, firstNonopt, lastNonopt, swapVars>>

PlainOption ==
  /\ AtLong /\ Element.eq = None
  /\ Found(Element.name) # None /\ ~Ambiguous(Element.name)
  /\ ~Found(Element.name).hasArg
  /\ optind' = optind + 1
  /\ Return(Found(Element.name).val, None)
  /\ UNCHANGED <<argVars, ordering, firstNonopt, lastNonopt, swapVars>>

(* No short option is known; optind moves on if it is alone in its element.*)
ShortOption ==
  /\ at = "scan" /\ optind # argc /\ argv[optind].kind = "short"
  /\ optind' = IF Len(Element.name) = 1 THEN optind + 1 ELSE optind
  /\ Return("?", None)
  /\ UNCHANGED <<argVars, ordering, firstNonopt, lastNonopt, swapVars>>

GetoptStep ==
  \/ Permute \/ SwapBottom \/ SwapTop \/ Exchanged
  \/ SkipNonOption \/ DashDash \/ TakeRest \/ EndOfOptions
  \/ RefuseOption \/ InlineArgument \/ NextArgument \/ PlainOption \/ ShortOption

GetoptSpec ==
  /\ \E args \in Seq(Elements), posix \in BOOLEAN : GetoptInit(args, posix)
  /\ [][Call \/ GetoptStep]_getoptVars

-----------------------------------------------------------------------------
(* What the comment of _getopt_internal_r says of a command line: the one  *)
(* option a name stands for, and element by element from the left what is  *)
(* returned and which elements belong to options.                          *)
Meant(name) ==
  LET exact == {i \in 1..Len(LongOpts) : LongOpts[i].name = name}
      begun == {i \in 1..Len(LongOpts) :
                  /\ Len(name) <= Len(LongOpts[i].name)
                  /\ SubSeq(LongOpts[i].name, 1, Len(name)) = name}
  IN IF exact # {} THEN exact ELSE begun

StopAt(i) ==
  [results |-> <<<<"end", None>>>>, options |-> <<>>, rest |-> SubSeq(given, i, Len(given))]
Refusal == [results |-> <<<<"?", None>>>>, options |-> <<>>, rest |-> <<>>]
OptionAt(i, k, val, arg, later) ==
  [results |-> <<<<val, arg>>>> \o later.results,
   options |-> SubSeq(given, i, i + k - 1) \o later.options,
   rest |-> later.rest]

LongAt(i, next, afterNext) ==
  LET e == given[i]
      o == LongOpts[CHOOSE o \in Meant(e.name) : TRUE]
  IN CASE ~\E m \in Meant(e.name) : Meant(e.name) = {m} -> Refusal
       [] OTHER ->
            CASE e.eq # None /\ o.hasArg -> OptionAt(i, 1, o.val, e.eq, next)
              [] e.eq = None /\ o.hasArg /\ i < Len(given) ->
                   OptionAt(i, 2, o.val, Str(given[i + 1]), afterNext)
              [] e.eq = None /\ ~o.hasArg -> OptionAt(i, 1, o.val, None, next)
              [] OTHER -> Refusal

(* Element i, when what follows it, and what follows its argument, is read.*)
ReadAt(i, next, afterNext) ==
  LET e == given[i] IN
    CASE e.kind = "word" /\ posixlyCorrect  -> StopAt(i)
      [] e.kind = "word" /\ ~posixlyCorrect -> [next EXCEPT !.rest = <<e>> \o @]
      [] e.kind = "dashes" -> [StopAt(i + 1) EXCEPT !.options = <<e>>]
      [] e.kind = "short"  -> Refusal
      [] e.kind = "long"   -> LongAt(i, next, afterNext)

Read[i \in 1..(Len(given) + 2)] ==
  IF i > Len(given) THEN StopAt(i) ELSE ReadAt(i, Read[i + 1], Read[i + 2])
Reading == Read[1]

(* However options, their arguments and other words are mixed, getopt_long *)
(* returns the options of the command line one after the other, each with  *)
(* its argument, though it permutes argv meanwhile (getopt.c:342-396).     *)
ReadsAsWritten ==
  at = "caller" /\ ret # None =>
    LET whole == Reading.results IN
      /\ Len(results) <= Len(whole)
      /\ \A i \in 1..Len(results) : results[i] = whole[i]
      /\ ret \in {"end", "?"} => Len(results) = Len(whole)

(* No element outside argv is looked at or moved: the scan stays in it, and *)
(* the non-options that have been skipped, and the parts of them and of    *)
(* the options behind them that exchange still has to swap, lie before the *)
(* scan (getopt.c:188-274, 442-505, 720-767).                              *)
IndicesInRange ==
  /\ 1 <= optind /\ optind <= argc
  /\ at \in {"permute", "dashes", "scan"} =>
       1 <= firstNonopt /\ firstNonopt <= lastNonopt /\ lastNonopt <= optind
  /\ at \in {"exchange", "exchangeLast"} =>
       /\ 1 <= firstNonopt /\ firstNonopt <= bottom /\ bottom <= lastNonopt
       /\ lastNonopt <= top /\ top <= optind

(* After the last option argv holds the options with their arguments, then *)
(* the other words, all in the order they were given, and optind is the    *)
(* first of those (exchange, getopt.c:188-274).                            *)
OptionsFirst ==
  ret = "end" /\ at = "caller" =>
    LET whole == Reading IN
      /\ argv = whole.options \o whole.rest
      /\ optind = Len(whole.options) + 1
=============================================================================
