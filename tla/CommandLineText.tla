--------------------------- MODULE CommandLineText ---------------------------
(***************************************************************************)
(* CreateCommandLine (command_line.cc), which main logs: the arguments of  *)
(* the process joined to one line, quoted so that reading the line again   *)
(* gives the arguments back.  The writer goes through the arguments        *)
(* character by character; each step writes a number of backslashes and    *)
(* one other character, which the reader takes at once.                    *)
(*                                                                         *)
(* External: the reader, CommandLineToArgvW.  Its rule for a quote that    *)
(* follows a closing quote is left out: the writer puts a blank or nothing *)
(* there.  So is its own rule for the program, where backslashes are never *)
(* doubled: for the path of a file the two give the same.                  *)
(***************************************************************************)
EXTENDS Integers, Sequences

CONSTANTS
    Char,       \* the characters, by how they are treated
    Backslash, Quote, Blank, Slash,
    Special,    \* the rest of the characters that call for quotes
    Lines       \* the argument lists to consider, the program first

(* No quotes, and a name at the end.                                       *)
IsFile(path) ==
    /\ path # <<>>
    /\ \A i \in DOMAIN path : path[i] # Quote
    /\ path[Len(path)] \notin {Slash, Backslash}

ASSUME TextAssumption ==
    /\ {Backslash, Quote, Blank, Slash} \cup Special \subseteq Char
    /\ Quote # Backslash /\ Blank # Backslash /\ Blank # Quote
    /\ Slash \notin {Backslash, Quote, Blank}
    /\ Lines \subseteq Seq(Seq(Char))
    /\ \A line \in Lines : line # <<>> /\ IsFile(line[1])

Specials == {Backslash, Quote, Blank} \cup Special

VARIABLES
    given,      \* the arguments
    arg,        \* the number of the argument being written
    next,       \* the character of it that comes next, 0 before the first
    pending,    \* backslashes counted and not yet written
    argv,       \* the words that have been read
    word,       \* the word that is being read
    inQuotes    \* the reader is between quotes

textVars == <<given, arg, next, pending, argv, word, inQuotes>>

(* The program is a path: its slashes are turned.                          *)
Turned(s) == [i \in DOMAIN s |-> IF s[i] = Slash THEN Backslash ELSE s[i]]

Argument(i) == IF i = 1 THEN Turned(given[1]) ELSE given[i]

NeedsQuotes(s) == s = <<>> \/ \E i \in DOMAIN s : s[i] \in Specials

Quoted(i) == i = 1 \/ NeedsQuotes(given[i])

-----------------------------------------------------------------------------
(* The reader has come to n backslashes and then c.                        *)
Lengthened(n) ==
    [i \in 1 .. Len(word) + n |-> IF i <= Len(word) THEN word[i] ELSE Backslash]

Extended(n, c) ==
    [i \in 1 .. Len(word) + n + 1 |-> IF i <= Len(word) THEN word[i]
                                      ELSE IF i <= Len(word) + n THEN Backslash
                                      ELSE c]

(* Before a quote, two backslashes stand for one, and an odd one makes the *)
(* quote part of the word.                                                 *)
ReadQuote(n) ==
    /\ IF n % 2 = 1
       THEN word' = Extended(n \div 2, Quote) /\ UNCHANGED inQuotes
       ELSE word' = Lengthened(n \div 2) /\ inQuotes' = ~inQuotes
    /\ UNCHANGED argv

EndWord(n) ==
    /\ argv' = Append(argv, Lengthened(n))
    /\ word' = <<>>
    /\ UNCHANGED inQuotes

ReadOther(n, c) ==
    IF c = Blank /\ ~inQuotes
    THEN EndWord(n)
    ELSE /\ word' = Extended(n, c)
         /\ UNCHANGED <<inQuotes, argv>>

-----------------------------------------------------------------------------
(* The writer: QuoteSingleArg, or the argument as it is.                   *)
Writing == arg \in DOMAIN given

OpenQuote ==
    /\ Writing /\ next = 0
    /\ next' = 1
    /\ IF Quoted(arg) THEN ReadQuote(0) ELSE UNCHANGED <<argv, word, inQuotes>>
    /\ UNCHANGED <<given, arg, pending>>

Within == Writing /\ next \in DOMAIN Argument(arg)

CountBackslash ==
    /\ Within
    /\ Argument(arg)[next] = Backslash
    /\ pending' = pending + 1
    /\ next' = next + 1
    /\ UNCHANGED <<given, arg, argv, word, inQuotes>>

(* Mutant: the backslashes before a quote are not doubled.                 *)
WriteQuoteOnce ==
    /\ Within
    /\ Argument(arg)[next] = Quote
    /\ ReadQuote(pending + 1)
    /\ pending' = 0
    /\ next' = next + 1
    /\ UNCHANGED <<given, arg>>

WriteQuote ==
    /\ Within
    /\ Argument(arg)[next] = Quote
    /\ ReadQuote(2 * pending + 1)
    /\ pending' = 0
    /\ next' = next + 1
    /\ UNCHANGED <<given, arg>>

WriteOther ==
    /\ Within
    /\ Argument(arg)[next] \notin {Backslash, Quote}
    /\ ReadOther(pending, Argument(arg)[next])
    /\ pending' = 0
    /\ next' = next + 1
    /\ UNCHANGED <<given, arg>>

CloseQuote ==
    /\ Writing /\ next = Len(Argument(arg)) + 1
    /\ IF Quoted(arg) THEN ReadQuote(2 * pending)
                      ELSE UNCHANGED <<argv, word, inQuotes>>
    /\ pending' = 0
    /\ next' = next + 1
    /\ UNCHANGED <<given, arg>>

(* args.join, or the end of the line, which ends the word as well.         *)
NextArgument ==
    /\ Writing /\ next = Len(Argument(arg)) + 2
    /\ IF arg < Len(given) THEN ReadOther(0, Blank) ELSE EndWord(0)
    /\ arg' = arg + 1
    /\ next' = 0
    /\ UNCHANGED <<given, pending>>

TextStep ==
    \/ OpenQuote \/ CountBackslash \/ WriteQuote \/ WriteOther \/ CloseQuote
    \/ NextArgument

TextInit ==
    /\ given \in Lines
    /\ arg = 1 /\ next = 0 /\ pending = 0
    /\ argv = <<>> /\ word = <<>> /\ inQuotes = FALSE

TextSpec == TextInit /\ [][TextStep]_textVars

LineComplete == arg = Len(given) + 1

-----------------------------------------------------------------------------
TextTypeOK ==
    /\ given \in Seq(Seq(Char))
    /\ arg \in 1 .. Len(given) + 1
    /\ next \in Nat /\ pending \in Nat
    /\ argv \in Seq(Seq(Char))
    /\ word \in Seq(Char)
    /\ inQuotes \in BOOLEAN

(* The line in the log, read again, gives the arguments of the process,    *)
(* whatever backslashes, quotes and blanks they are made of.               *)
RoundTrip ==
    LineComplete => argv = [i \in DOMAIN given |-> Argument(i)]

(* Why it does so, for the proof.  Of the argument being written, before   *)
(* it is opened, between its quotes, and after it is closed: all has been  *)
(* read that was gone through, but the pending backslashes.                *)
NothingRead == word = <<>> /\ pending = 0 /\ ~inQuotes

ReadWithin ==
    /\ Len(word) + pending = next - 1
    /\ \A i \in 1 .. Len(word) : word[i] = Argument(arg)[i]
    /\ \A i \in Len(word) + 1 .. next - 1 : Argument(arg)[i] = Backslash
    /\ inQuotes <=> Quoted(arg)

AllRead == word = Argument(arg) /\ pending = 0 /\ ~inQuotes

WordIsPrefix ==
    \/ next = 0 /\ NothingRead
    \/ next \in 1 .. Len(Argument(arg)) + 1 /\ ReadWithin
    \/ next = Len(Argument(arg)) + 2 /\ AllRead

(* The arguments before this one have become words of argv.                *)
ReadSoFar ==
    /\ Len(argv) = arg - 1
    /\ \A i \in 1 .. arg - 1 : argv[i] = Argument(i)
    /\ Writing => WordIsPrefix
    /\ ~Writing => NothingRead
=============================================================================
