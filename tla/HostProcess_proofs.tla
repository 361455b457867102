------------------------ MODULE HostProcess_proofs -----------------------
(***************************************************************************)
(* What holds of a process that starts, for every command line it may be   *)
(* given and whatever fails: first its logged command line, which reads    *)
(* back as the arguments it was made from, for every set of characters;    *)
(* then the start itself; then the type information it answers with.       *)
(***************************************************************************)
EXTENDS HostProcess, FiniteSetTheorems, WellFoundedInduction, TLAPS

Inv == TextTypeOK /\ ReadSoFar

(* Half of the backslashes before a quote, as the reader counts them.      *)
LEMMA Halves ==
    ASSUME NEW p \in Nat
    PROVE  /\ (2 * p + 1) % 2 = 1 /\ (2 * p + 1) \div 2 = p
           /\ (2 * p) % 2 = 0 /\ (2 * p) \div 2 = p
  BY SMT

(* What the reader appends to its word.                                    *)
LEMMA LengthenedIs ==
    ASSUME word \in Seq(Char), NEW n \in Nat
    PROVE  /\ Lengthened(n) \in Seq(Char)
           /\ Len(Lengthened(n)) = Len(word) + n
           /\ \A i \in 1 .. Len(word) : Lengthened(n)[i] = word[i]
           /\ \A i \in Len(word) + 1 .. Len(word) + n : Lengthened(n)[i] = Backslash
  <1> DEFINE w == Lengthened(n)
  <1>1. Len(word) \in Nat /\ Len(word) + n \in Nat
    OBVIOUS
  <1>2. w = [i \in 1 .. Len(word) + n |-> IF i <= Len(word) THEN word[i] ELSE Backslash]
    BY DEF Lengthened
  <1>3. \A i \in 1 .. Len(word) + n : w[i] \in Char
    BY <1>1, <1>2, TextAssumption
  <1>4. w \in Seq(Char) /\ Len(w) = Len(word) + n
    BY <1>1, <1>2, <1>3
  <1> QED
    BY <1>1, <1>2, <1>4

LEMMA ExtendedIs ==
    ASSUME word \in Seq(Char), NEW n \in Nat, NEW c \in Char
    PROVE  /\ Extended(n, c) \in Seq(Char)
           /\ Len(Extended(n, c)) = Len(word) + n + 1
           /\ \A i \in 1 .. Len(word) : Extended(n, c)[i] = word[i]
           /\ \A i \in Len(word) + 1 .. Len(word) + n : Extended(n, c)[i] = Backslash
           /\ Extended(n, c)[Len(word) + n + 1] = c
  <1> DEFINE w == Extended(n, c)
  <1>1. Len(word) \in Nat /\ Len(word) + n + 1 \in Nat
    OBVIOUS
  <1>2. w = [i \in 1 .. Len(word) + n + 1 |->
               IF i <= Len(word) THEN word[i]
               ELSE IF i <= Len(word) + n THEN Backslash ELSE c]
    BY DEF Extended
  <1>3. \A i \in 1 .. Len(word) + n + 1 : w[i] \in Char
    BY <1>1, <1>2, TextAssumption
  <1>4. w \in Seq(Char) /\ Len(w) = Len(word) + n + 1
    BY <1>1, <1>2, <1>3
  <1> QED
    BY <1>1, <1>2, <1>4

LEMMA TurnedIs == ASSUME NEW s \in Seq(Char) PROVE Turned(s) \in Seq(Char)
  <1> DEFINE t == Turned(s)
  <1>1. Len(s) \in Nat /\ DOMAIN s = 1 .. Len(s) /\ \A i \in 1 .. Len(s) : s[i] \in Char
    OBVIOUS
  <1>2. t = [i \in 1 .. Len(s) |-> IF s[i] = Slash THEN Backslash ELSE s[i]]
    BY <1>1 DEF Turned
  <1>3. \A i \in 1 .. Len(s) : t[i] \in Char
    BY <1>1, <1>2, TextAssumption
  <1> QED
    BY <1>1, <1>2, <1>3

(* Arguments are words, and only those with special characters are quoted, *)
(* besides the program and empty ones.                                     *)
LEMMA ArgumentIs ==
    ASSUME given \in Seq(Seq(Char)), NEW j \in DOMAIN given
    PROVE  /\ Argument(j) \in Seq(Char)
           /\ ~Quoted(j) => \A i \in 1 .. Len(Argument(j)) : Argument(j)[i] \notin Specials
  <1>1. given[j] \in Seq(Char)
    OBVIOUS
  <1>2. Turned(given[j]) \in Seq(Char)
    BY <1>1, TurnedIs
  <1>3. Argument(j) \in Seq(Char)
    BY <1>1, <1>2 DEF Argument
  <1>4. ASSUME ~Quoted(j)
        PROVE  \A i \in 1 .. Len(Argument(j)) : Argument(j)[i] \notin Specials
    BY <1>1, <1>4 DEF Quoted, NeedsQuotes, Argument
  <1> QED
    BY <1>3, <1>4

LEMMA Initially == TextInit => Inv
  <1> SUFFICES ASSUME TextInit PROVE Inv
    OBVIOUS
  <1>1. given \in Seq(Seq(Char)) /\ Len(given) \in Nat
    BY TextAssumption DEF TextInit
  <1>2. TextTypeOK
    <2>1. /\ arg \in 1 .. Len(given) + 1 /\ next \in Nat /\ pending \in Nat
          /\ argv \in Seq(Seq(Char)) /\ word \in Seq(Char)
      BY <1>1 DEF TextInit
    <2>2. inQuotes \in BOOLEAN
      BY DEF TextInit
    <2> QED
      BY <1>1, <2>1, <2>2 DEF TextTypeOK
  <1>3. Len(argv) = 0 /\ WordIsPrefix /\ NothingRead
    BY DEF TextInit, WordIsPrefix, NothingRead
  <1> QED
    BY <1>1, <1>2, <1>3 DEF Inv, ReadSoFar, TextInit

(* The rest of the steps work on one argument and leave argv alone.        *)
LEMMA WithinArgument ==
    ASSUME Inv, Writing, UNCHANGED <<given, arg, argv>>,
           next' \in Nat, pending' \in Nat, word' \in Seq(Char),
           inQuotes' \in BOOLEAN, WordIsPrefix'
    PROVE  Inv'
  BY DEF Inv, TextTypeOK, ReadSoFar, Writing, Argument

(* What the invariant says between the quotes of an argument.              *)
LEMMA Between ==
    ASSUME Inv, Writing, Argument(arg) \in Seq(Char), next \in 1 .. Len(Argument(arg)) + 1
    PROVE  ReadWithin
  <1>1. WordIsPrefix
    BY DEF Inv, ReadSoFar
  <1>2. Len(Argument(arg)) \in Nat
    OBVIOUS
  <1>3. next # 0 /\ next # Len(Argument(arg)) + 2
    BY <1>2
  <1> QED
    BY <1>1, <1>3 DEF WordIsPrefix

LEMMA Opening == Inv /\ OpenQuote => Inv'
  <1> SUFFICES ASSUME Inv, OpenQuote PROVE Inv'
    OBVIOUS
  <1> DEFINE a == Argument(arg)
  <1>1. /\ Writing /\ given \in Seq(Seq(Char)) /\ arg \in DOMAIN given
        /\ next = 0 /\ next' = 1 /\ UNCHANGED <<given, arg, pending>>
        /\ word \in Seq(Char) /\ pending \in Nat
    BY DEF OpenQuote, Inv, TextTypeOK, Writing
  <1>2. a \in Seq(Char) /\ Len(a) \in Nat
    BY <1>1, ArgumentIs
  <1>3. NothingRead
    BY <1>1, <1>2 DEF Inv, ReadSoFar, WordIsPrefix
  <1>4. Len(word) = 0 /\ pending = 0 /\ ~inQuotes
    BY <1>3 DEF NothingRead
  <1>5. /\ word' \in Seq(Char) /\ Len(word') = 0 /\ UNCHANGED argv
        /\ inQuotes' <=> Quoted(arg)
    <2>1. CASE Quoted(arg)
      <3>1. word' = Lengthened(0) /\ inQuotes' = ~inQuotes /\ UNCHANGED argv
        BY <2>1 DEF OpenQuote, ReadQuote
      <3>2. 0 \in Nat
        OBVIOUS
      <3>3. Lengthened(0) \in Seq(Char) /\ Len(Lengthened(0)) = Len(word) + 0
        BY <1>1, <3>2, LengthenedIs
      <3>4. word' \in Seq(Char) /\ Len(word') = 0
        BY <1>4, <3>1, <3>3
      <3>5. inQuotes' <=> Quoted(arg)
        BY <1>4, <2>1, <3>1, Zenon
      <3> QED
        BY <3>1, <3>4, <3>5
    <2>2. CASE ~Quoted(arg)
      BY <1>1, <1>4, <2>2 DEF OpenQuote
    <2> QED
      BY <2>1, <2>2
  <1>6. Quoted(arg)' = Quoted(arg) /\ Argument(arg)' = a
    BY <1>1 DEF Quoted, Argument
  <1>7. WordIsPrefix'
    <2>1. ReadWithin'
      BY <1>1, <1>4, <1>5, <1>6 DEF ReadWithin
    <2>2. next' \in 1 .. Len(Argument(arg)') + 1
      BY <1>1, <1>2, <1>6
    <2> QED
      BY <2>1, <2>2 DEF WordIsPrefix
  <1> QED
    <2>1. inQuotes' \in BOOLEAN
      BY DEF OpenQuote, ReadQuote, Inv, TextTypeOK
    <2> QED
      BY <1>1, <1>5, <1>7, <2>1, WithinArgument

LEMMA Counting == Inv /\ CountBackslash => Inv'
  <1> SUFFICES ASSUME Inv, CountBackslash PROVE Inv'
    OBVIOUS
  <1> DEFINE a == Argument(arg)
  <1>1. /\ Writing /\ given \in Seq(Seq(Char)) /\ arg \in DOMAIN given
        /\ next \in DOMAIN a /\ next' = next + 1 /\ pending' = pending + 1
        /\ a[next] = Backslash
        /\ UNCHANGED <<given, arg, argv, word, inQuotes>>
        /\ word \in Seq(Char) /\ pending \in Nat /\ inQuotes \in BOOLEAN
    BY DEF CountBackslash, Within, Inv, TextTypeOK, Writing
  <1>2. a \in Seq(Char) /\ Len(a) \in Nat /\ next \in 1 .. Len(a)
    BY <1>1, ArgumentIs
  <1>3. /\ Len(word) + pending = next - 1
        /\ \A i \in 1 .. Len(word) : word[i] = a[i]
        /\ \A i \in Len(word) + 1 .. next - 1 : a[i] = Backslash
        /\ inQuotes <=> Quoted(arg)
    <2>1. ReadWithin
      BY <1>1, <1>2, Between
    <2> QED
      BY <2>1 DEF ReadWithin
  <1>4. Quoted(arg)' = Quoted(arg) /\ Argument(arg)' = a
    BY <1>1 DEF Quoted, Argument
  <1>5. \A i \in Len(word) + 1 .. next : a[i] = Backslash
    BY <1>1, <1>2, <1>3
  <1>6. Len(word') + pending' = next' - 1 /\ next' - 1 = next
    BY <1>1, <1>2, <1>3
  <1>7. ReadWithin'
    BY <1>1, <1>3, <1>4, <1>5, <1>6 DEF ReadWithin
  <1>8. WordIsPrefix'
    <2>1. next' \in 1 .. Len(Argument(arg)') + 1
      BY <1>1, <1>2, <1>4
    <2> QED
      BY <1>7, <2>1 DEF WordIsPrefix
  <1> QED
    BY <1>1, <1>2, <1>8, WithinArgument

(* Once a character other than a backslash is written the word is all of   *)
(* the argument up to it.                                                  *)
LEMMA CharacterWritten ==
    ASSUME Inv, Within, UNCHANGED <<given, arg, argv, inQuotes>>,
           next' = next + 1, pending' = 0,
           word' = Extended(pending, Argument(arg)[next])
    PROVE  Inv'
  <1> DEFINE a == Argument(arg)
  <1>1. /\ Writing /\ given \in Seq(Seq(Char)) /\ arg \in DOMAIN given
        /\ next \in DOMAIN a /\ word \in Seq(Char) /\ pending \in Nat
        /\ inQuotes \in BOOLEAN
    BY DEF Within, Inv, TextTypeOK, Writing
  <1>2. a \in Seq(Char) /\ Len(a) \in Nat /\ next \in 1 .. Len(a) /\ a[next] \in Char
    BY <1>1, ArgumentIs
  <1>3. /\ Len(word) + pending = next - 1 /\ Len(word) \in Nat
        /\ \A i \in 1 .. Len(word) : word[i] = a[i]
        /\ \A i \in Len(word) + 1 .. next - 1 : a[i] = Backslash
        /\ inQuotes <=> Quoted(arg)
    <2>1. ReadWithin
      BY <1>1, <1>2, Between
    <2> QED
      BY <1>1, <2>1 DEF ReadWithin
  <1>4. /\ word' \in Seq(Char) /\ Len(word') = next
        /\ \A i \in 1 .. next : word'[i] = a[i]
    <2>1. /\ word' \in Seq(Char) /\ Len(word') = Len(word) + pending + 1
          /\ \A i \in 1 .. Len(word) : word'[i] = word[i]
          /\ \A i \in Len(word) + 1 .. Len(word) + pending : word'[i] = Backslash
          /\ word'[Len(word) + pending + 1] = a[next]
      <3>1. word \in Seq(Char) /\ pending \in Nat /\ a[next] \in Char
        BY <1>1, <1>2
      <3> DEFINE w == Extended(pending, a[next])
      <3>2. /\ w \in Seq(Char) /\ Len(w) = Len(word) + pending + 1
            /\ \A i \in 1 .. Len(word) : w[i] = word[i]
            /\ \A i \in Len(word) + 1 .. Len(word) + pending : w[i] = Backslash
            /\ w[Len(word) + pending + 1] = a[next]
        <4> HIDE DEF a
        <4> QED
          BY <3>1, ExtendedIs, Zenon
      <3>3. word' = w
        OBVIOUS
      <3> HIDE DEF a, w
      <3> QED
        BY <3>2, <3>3, Zenon
    <2>2. Len(word) + pending + 1 = next /\ Len(word') = next
      <3>1. next \in Int /\ pending \in Int
        BY <1>1, <1>2
      <3>2. Len(word) \in Int /\ Len(word) + pending = next - 1
        BY <1>3
      <3>3. Len(word') = Len(word) + pending + 1
        BY <2>1
      <3> QED
        BY <3>1, <3>2, <3>3
    <2>3. ASSUME NEW i \in 1 .. next PROVE word'[i] = a[i]
      <3>1. CASE i \in 1 .. Len(word)
        BY <1>3, <2>1, <3>1
      <3>2. CASE i \in Len(word) + 1 .. Len(word) + pending
        BY <1>3, <2>1, <3>2
      <3>3. CASE i = next
        BY <2>1, <2>2, <3>3
      <3>4. /\ next \in Nat /\ Len(word) \in Nat /\ pending \in Nat
            /\ Len(word) + pending = next - 1
        BY <1>1, <1>2, <1>3
      <3>5. \/ i \in 1 .. Len(word)
            \/ i \in Len(word) + 1 .. Len(word) + pending
            \/ i = next
        <4> HIDE DEF a
        <4> QED
          BY <3>4, SMT
      <3> QED
        BY <3>1, <3>2, <3>3, <3>5, Zenon
    <2> QED
      BY <2>1, <2>2, <2>3
  <1>5. Quoted(arg)' = Quoted(arg) /\ Argument(arg)' = a
    BY <1>1 DEF Quoted, Argument
  <1>6. WordIsPrefix'
    <2>1. Len(word') + pending' = next' - 1 /\ next' - 1 = next
      BY <1>1, <1>2, <1>4
    <2>2. ReadWithin'
      <3>1. \A i \in 1 .. Len(word') : word'[i] = Argument(arg)'[i]
        BY <1>4, <1>5, Zenon
      <3>2. \A i \in Len(word') + 1 .. next' - 1 : Argument(arg)'[i] = Backslash
        <4>1. next \in Int /\ Len(word') = next /\ next' - 1 = next
          BY <1>2, <1>4, <2>1
        <4> QED
          BY <4>1
      <3>3. inQuotes' <=> Quoted(arg)'
        BY <1>3, <1>5, Zenon
      <3> QED
        BY <2>1, <3>1, <3>2, <3>3, Zenon DEF ReadWithin
    <2>3. next' \in 1 .. Len(Argument(arg)') + 1
      BY <1>2, <1>5, <2>1
    <2> QED
      BY <2>2, <2>3 DEF WordIsPrefix
  <1> QED
    BY <1>1, <1>2, <1>4, <1>6, WithinArgument

LEMMA Quoting == Inv /\ WriteQuote => Inv'
  <1> SUFFICES ASSUME Inv, WriteQuote PROVE Inv'
    OBVIOUS
  <1>1. pending \in Nat
    BY DEF Inv, TextTypeOK
  <1>2. word' = Extended(pending, Quote) /\ UNCHANGED <<argv, inQuotes>>
    BY <1>1, Halves DEF WriteQuote, ReadQuote
  <1> QED
    BY <1>2, CharacterWritten DEF WriteQuote

LEMMA Others == Inv /\ WriteOther => Inv'
  <1> SUFFICES ASSUME Inv, WriteOther PROVE Inv'
    OBVIOUS
  <1> DEFINE a == Argument(arg)
  <1>1. /\ Writing /\ given \in Seq(Seq(Char)) /\ arg \in DOMAIN given /\ next \in DOMAIN a
    BY DEF WriteOther, Within, Inv, TextTypeOK, Writing
  <1>2. a \in Seq(Char) /\ Len(a) \in Nat /\ next \in 1 .. Len(a)
    BY <1>1, ArgumentIs
  <1>3. inQuotes <=> Quoted(arg)
    BY <1>1, <1>2, Between DEF ReadWithin
  <1>4. ~(a[next] = Blank /\ ~inQuotes)
    BY <1>1, <1>2, <1>3, ArgumentIs DEF Specials
  <1>5. word' = Extended(pending, a[next]) /\ UNCHANGED <<inQuotes, argv>>
    BY <1>4 DEF WriteOther, ReadOther
  <1> QED
    BY <1>5, CharacterWritten DEF WriteOther

LEMMA Closing == Inv /\ CloseQuote => Inv'
  <1> SUFFICES ASSUME Inv, CloseQuote PROVE Inv'
    OBVIOUS
  <1> DEFINE a == Argument(arg)
  <1>1. /\ Writing /\ given \in Seq(Seq(Char)) /\ arg \in DOMAIN given
        /\ next = Len(a) + 1 /\ next' = next + 1 /\ pending' = 0
        /\ UNCHANGED <<given, arg>>
        /\ word \in Seq(Char) /\ pending \in Nat /\ inQuotes \in BOOLEAN
    BY DEF CloseQuote, Inv, TextTypeOK, Writing
  <1>2. a \in Seq(Char) /\ Len(a) \in Nat
    BY <1>1, ArgumentIs
  <1>3. /\ Len(word) + pending = Len(a) /\ Len(word) \in Nat
        /\ \A i \in 1 .. Len(word) : word[i] = a[i]
        /\ \A i \in Len(word) + 1 .. Len(a) : a[i] = Backslash
        /\ inQuotes <=> Quoted(arg)
    <2>1. ReadWithin
      BY <1>1, <1>2, Between
    <2> QED
      BY <1>1, <1>2, <2>1 DEF ReadWithin
  <1>4. word' \in Seq(Char) /\ word' = a /\ ~inQuotes' /\ UNCHANGED argv
    <2>1. CASE Quoted(arg)
      <3>1. word' = Lengthened(pending) /\ inQuotes' = ~inQuotes /\ UNCHANGED argv
        BY <1>1, <2>1, Halves DEF CloseQuote, ReadQuote
      <3>2. /\ word' \in Seq(Char) /\ Len(word') = Len(word) + pending
            /\ \A i \in 1 .. Len(word) : word'[i] = word[i]
            /\ \A i \in Len(word) + 1 .. Len(word) + pending : word'[i] = Backslash
        BY <1>1, <3>1, LengthenedIs
      <3>3. Len(word') = Len(a) /\ \A i \in 1 .. Len(a) : word'[i] = a[i]
        <4>1. Len(word) + pending = Len(a) /\ Len(word') = Len(a)
          BY <1>3, <3>2
        <4>2. ASSUME NEW i \in 1 .. Len(a) PROVE word'[i] = a[i]
          <5>1. CASE i \in 1 .. Len(word)
            BY <1>3, <3>2, <5>1
          <5>2. CASE i \in Len(word) + 1 .. Len(a)
            BY <1>3, <3>2, <4>1, <5>2
          <5> QED
            BY <1>2, <1>3, <5>1, <5>2
        <4> QED
          BY <4>1, <4>2
      <3>4. word' = a
        BY <1>2, <3>2, <3>3
      <3>5. ~inQuotes'
        BY <1>3, <2>1, <3>1
      <3> QED
        BY <3>1, <3>2, <3>4, <3>5
    <2>2. CASE ~Quoted(arg)
      <3>1. UNCHANGED <<argv, word, inQuotes>>
        BY <2>2 DEF CloseQuote
      <3>2. \A i \in 1 .. Len(a) : a[i] # Backslash
        BY <1>1, <2>2, ArgumentIs DEF Specials
      <3>3. pending = 0
        <4>1. SUFFICES ASSUME pending > 0 PROVE FALSE
          BY <1>1
        <4>2. Len(a) \in Len(word) + 1 .. Len(a) /\ Len(a) \in 1 .. Len(a)
          BY <1>1, <1>2, <1>3, <4>1
        <4> QED
          BY <1>3, <3>2, <4>2
      <3>4. word = a
        BY <1>1, <1>2, <1>3, <3>3
      <3>5. ~inQuotes
        BY <1>3, <2>2
      <3> QED
        BY <1>1, <3>1, <3>4, <3>5
    <2> QED
      BY <2>1, <2>2
  <1>5. inQuotes' \in BOOLEAN
    BY <1>1 DEF CloseQuote, ReadQuote
  <1>6. Quoted(arg)' = Quoted(arg) /\ Argument(arg)' = a
    BY <1>1 DEF Quoted, Argument
  <1>7. WordIsPrefix'
    <2>1. AllRead'
      BY <1>1, <1>4, <1>6 DEF AllRead
    <2>2. next' = Len(Argument(arg)') + 2
      BY <1>1, <1>2, <1>6
    <2> QED
      BY <2>1, <2>2 DEF WordIsPrefix
  <1> QED
    BY <1>1, <1>2, <1>4, <1>5, <1>7, WithinArgument

(* The word goes to argv, and the next argument begins with an empty one.  *)
LEMMA Ending == Inv /\ NextArgument => Inv'
  <1> SUFFICES ASSUME Inv, NextArgument PROVE Inv'
    OBVIOUS
  <1> DEFINE a == Argument(arg)
  <1>1. /\ Writing /\ given \in Seq(Seq(Char)) /\ arg \in 1 .. Len(given)
        /\ Len(given) \in Nat /\ next = Len(a) + 2 /\ next' = 0 /\ arg' = arg + 1
        /\ UNCHANGED <<given, pending>>
        /\ argv \in Seq(Seq(Char)) /\ word \in Seq(Char)
    BY DEF NextArgument, Inv, TextTypeOK, Writing
  <1>2. a \in Seq(Char) /\ Len(a) \in Nat
    BY <1>1, ArgumentIs
  <1>3. /\ word = a /\ pending = 0 /\ ~inQuotes
        /\ Len(argv) = arg - 1 /\ \A i \in 1 .. arg - 1 : argv[i] = Argument(i)
    <2>1. WordIsPrefix /\ next # 0 /\ next \notin 1 .. Len(a) + 1
      BY <1>1, <1>2 DEF Inv, ReadSoFar
    <2> QED
      BY <1>1, <2>1 DEF Inv, ReadSoFar, WordIsPrefix, AllRead
  <1>4. Lengthened(0) = a
    <2>1. /\ Lengthened(0) \in Seq(Char) /\ Len(Lengthened(0)) = Len(word) + 0
          /\ \A i \in 1 .. Len(word) : Lengthened(0)[i] = word[i]
      <3>1. 0 \in Nat
        OBVIOUS
      <3> QED
        BY <1>1, <3>1, LengthenedIs, Zenon
    <2>2. Lengthened(0) = word
      <3>1. word \in Seq(Char)
        BY <1>1
      <3> QED
        BY <2>1, <3>1
    <2> QED
      BY <1>3, <2>2
  <1>5. argv' = Append(argv, a) /\ word' = <<>> /\ UNCHANGED inQuotes
    BY <1>1, <1>3, <1>4 DEF NextArgument, ReadOther, EndWord
  <1>6. /\ argv' \in Seq(Seq(Char)) /\ Len(argv') = arg
        /\ \A i \in 1 .. arg - 1 : argv'[i] = argv[i]
        /\ argv'[arg] = a
    <2>1. argv \in Seq(Seq(Char)) /\ a \in Seq(Char) /\ Len(argv) = arg - 1 /\ arg \in Nat \ {0}
      BY <1>1, <1>2, <1>3
    <2>2. argv' = Append(argv, a)
      BY <1>5
    <2>3. argv' \in Seq(Seq(Char)) /\ Len(argv') = arg
      BY <2>1, <2>2
    <2>4. \A i \in 1 .. arg - 1 : argv'[i] = argv[i]
      BY <2>1, <2>2
    <2> QED
      BY <2>1, <2>2, <2>3, <2>4
  <1>7. \A i \in 1 .. arg : argv'[i] = Argument(i)
    <2> SUFFICES ASSUME NEW i \in 1 .. arg PROVE argv'[i] = Argument(i)
      OBVIOUS
    <2>1. CASE i \in 1 .. arg - 1
      BY <1>3, <1>6, <2>1
    <2>2. CASE i = arg
      BY <1>6, <2>2
    <2> QED
      BY <1>1, <2>1, <2>2
  <1>8. \A i \in 1 .. arg' - 1 : argv'[i] = Argument(i)'
    BY <1>1, <1>7 DEF Argument
  <1>9. word' \in Seq(Char) /\ Len(word') = 0 /\ pending' = 0
    BY <1>1, <1>3, <1>5
  <1>10. ~inQuotes' /\ inQuotes' \in BOOLEAN
    BY <1>3, <1>5 DEF Inv, TextTypeOK
  <1>11. TextTypeOK'
    BY <1>1, <1>6, <1>9, <1>10 DEF TextTypeOK
  <1>12. NothingRead' /\ WordIsPrefix'
    BY <1>1, <1>5, <1>9, <1>10 DEF NothingRead, WordIsPrefix
  <1> QED
    BY <1>1, <1>6, <1>8, <1>11, <1>12 DEF Inv, ReadSoFar

LEMMA Stuttering == Inv /\ UNCHANGED textVars => Inv'
  <1> SUFFICES ASSUME Inv, UNCHANGED textVars PROVE Inv'
    OBVIOUS
  <1>1. UNCHANGED <<given, arg, next, pending, argv, word, inQuotes>>
    BY DEF textVars
  <1>2. TextTypeOK'
    BY <1>1 DEF Inv, TextTypeOK
  <1>3. WordIsPrefix' = WordIsPrefix /\ Writing' = Writing
    BY <1>1 DEF WordIsPrefix, NothingRead, ReadWithin, AllRead, Writing,
                Argument, Quoted
  <1>4. ReadSoFar'
    BY <1>1, <1>3 DEF Inv, ReadSoFar, NothingRead, Argument
  <1> QED
    BY <1>2, <1>4 DEF Inv

-----------------------------------------------------------------------------
(* The reader is always exactly as far as the writer: it has all arguments *)
(* that are finished, and of the one being written all but the backslashes *)
(* the writer holds back.                                                  *)
THEOREM TextInvariant == TextSpec => [](TextTypeOK /\ ReadSoFar)
  <1>1. TextInit => Inv
    BY Initially
  <1>2. Inv /\ [TextStep]_textVars => Inv'
    BY Opening, Counting, Quoting, Others, Closing, Ending, Stuttering
       DEF TextStep
  <1> QED
    BY <1>1, <1>2, PTL DEF TextSpec, Inv

LEMMA InvRoundTrip == Inv => RoundTrip
  <1> SUFFICES ASSUME Inv, LineComplete PROVE argv = [i \in DOMAIN given |-> Argument(i)]
    BY DEF RoundTrip
  <1>1. /\ given \in Seq(Seq(Char)) /\ argv \in Seq(Seq(Char)) /\ arg = Len(given) + 1
        /\ Len(argv) = arg - 1 /\ \A i \in 1 .. arg - 1 : argv[i] = Argument(i)
    BY DEF Inv, TextTypeOK, ReadSoFar, LineComplete
  <1>2. DOMAIN argv = DOMAIN given /\ \A i \in DOMAIN given : argv[i] = Argument(i)
    BY <1>1
  <1>3. argv = [i \in DOMAIN argv |-> argv[i]]
    BY <1>1
  <1> QED
    BY <1>2, <1>3

(* The line in the log, read again, gives the arguments of the process.    *)
THEOREM TextRoundTrip == TextSpec => []RoundTrip
  BY TextInvariant, InvRoundTrip, PTL DEF Inv

(* Nothing else that goes on in the process touches the line.              *)
THEOREM LineInductive == Spec => []Inv
  <1>1. Init => TextInit /\ given \in Lines
    BY InputsAssumption DEF Init
  <1>2. Init => Inv
    BY <1>1, Initially
  <1>3. Inv /\ [Next]_vars => Inv'
    <2>1. [Next]_vars => [TextStep]_textVars
      BY DEF Next, vars, Starts, WritesLine, GoesOn, Answers
    <2> QED
      BY <2>1, Opening, Counting, Quoting, Others, Closing, Ending, Stuttering
         DEF TextStep
  <1> QED
    BY <1>2, <1>3, PTL DEF Spec

(* In the process as a whole, too, the logged line gives its arguments.    *)
THEOREM LineReadsBack == Spec => []RoundTrip
  BY InvRoundTrip, LineInductive, PTL
-----------------------------------------------------------------------------
(***************************************************************************)
(* The start (Startup).  But for Qt's own options both parses read the     *)
(* same line, so that what the first has assigned, if no value of Qt has   *)
(* misled it, is what the second will: that is what ties the logger,       *)
(* chosen after the first, to the role taken after the second.             *)
(***************************************************************************)

(* A number is what was read from its field, or nothing.                   *)
LEMMA NumberIs ==
    ASSUME NEW flags, NEW n \in Number(flags)
    PROVE  /\ UNION n \in SUBSET flags
           /\ n = {} => UNION n = {}
  <1>1. CASE n = {}
    BY <1>1
  <1>2. ASSUME NEW f \in SUBSET flags, n = {f} PROVE UNION n = f
    BY <1>2
  <1> QED
    BY <1>1, <1>2 DEF Number

LEMMA FromStringTyped ==
    ASSUME NEW item \in Item
    PROVE  FromString(item) \in ClassSpec
  <1>1. UNION item.cc \in SUBSET CLSCTX /\ UNION item.cr \in SUBSET CLSCTX
        /\ UNION item.r \in SUBSET REGCLS
    <2>1. item.cc \in Number(CLSCTX) /\ item.cr \in Number(CLSCTX) /\ item.r \in Number(REGCLS)
      BY DEF Item
    <2> QED
      BY <2>1, NumberIs
  <1>2. (IF item.a \in {"clsid", "other"} THEN item.a ELSE "null") \in {"null", "clsid", "other"}
    OBVIOUS
  <1> QED
    BY <1>1, <1>2 DEF FromString, ClassSpec

LEMMA ItemsTyped ==
    ASSUME NEW r \in Request
    PROVE  /\ Items(r) \in Seq(Item) /\ Specs(Items(r)) \in Seq(ClassSpec)
           /\ DOMAIN Specs(Items(r)) = DOMAIN Items(r)
           /\ \A i \in DOMAIN Items(r) : Items(r)[i] \in Item
           /\ \A i \in DOMAIN Items(r) : Specs(Items(r))[i] = FromString(Items(r)[i])
  <1>1. PICK items \in Seq(Item) : items = Items(r)
    BY DEF Items, Request, Line
  <1>2. \A i \in DOMAIN items : items[i] \in Item
    BY <1>1
  <1>3. Specs(items) = [i \in 1 .. Len(items) |-> FromString(items[i])]
    BY <1>1 DEF Specs
  <1>4. Specs(items) \in Seq(ClassSpec)
    BY <1>2, <1>3, FromStringTyped
  <1> QED
    BY <1>1, <1>2, <1>4 DEF Specs

LEMMA AssignedTyped ==
    ASSUME NEW r \in Request
    PROVE  Assigned(r) \in Parsed
  <1>1. NothingParsed \in Parsed
    BY DEF NothingParsed, Parsed, SINGLEUSE
  <1>2. AssignedUpToTimeout(r) \in Parsed
    <2>1. PICK specs \in Seq(ClassSpec) : specs = Specs(Items(r))
      BY ItemsTyped
    <2>2. r.embedding \in BOOLEAN
      BY DEF Request, Line
    <2>3. AssignedUpToTimeout(r) =
            [NothingParsed EXCEPT !.classId = (r.classId = "clsid"),
                                  !.embedding = r.embedding, !.specs = specs]
      BY <2>1 DEF AssignedUpToTimeout
    <2> QED
      BY <1>1, <2>2, <2>3 DEF Parsed
  <1>3. Regcls(r) \in SUBSET REGCLS
    BY DEF Regcls, REGCLS, SINGLEUSE
  <1> QED
    BY <1>1, <1>2, <1>3 DEF Assigned, Parsed, Request, Line

(* What a parse that runs to its end has assigned.                         *)
LEMMA WholeLineAssigned ==
    ASSUME NEW r \in Request, ~StopsAtTimeout(r)
    PROVE  /\ Assigned(r).classId = (r.classId = "clsid")
           /\ Assigned(r).embedding = r.embedding
           /\ Assigned(r).specs = Specs(Items(r))
           /\ Assigned(r).regcls = Regcls(r)
           /\ Assigned(r).logging = r.logging
           /\ Assigned(r).level = r.level
           /\ Assigned(r).registry = r.registry
  <1>1. ~StopsAtOnce(r)
    BY DEF StopsAtTimeout
  <1> QED
    BY <1>1 DEF Assigned, AssignedUpToTimeout, NothingParsed

(* The line as tryParse reads it is a line as well, the same but for what  *)
(* CLI11 makes of Qt's options.                                            *)
LEMMA WholeTyped ==
    ASSUME NEW r \in Request
    PROVE  /\ Whole(r) \in Request
           /\ Whole(r).form = IF r.qt # "none" /\ r.form = "plain" THEN "extra" ELSE r.form
           /\ Whole(r).classId = IF r.qt = "pair" /\ r.classId = "none" THEN "malformed"
                                                                      ELSE r.classId
           /\ Whole(r).embedding = r.embedding /\ Whole(r).timeout = r.timeout
           /\ Whole(r).logging = r.logging /\ Whole(r).level = r.level
  <1>1. r \in Line /\ (r.qt = "none" \/ r.form # "incomplete")
    BY DEF Request
  <1>2. PICK f : f = IF r.qt # "none" /\ r.form = "plain" THEN "extra" ELSE r.form
    OBVIOUS
  <1>3. PICK c : c = IF r.qt = "pair" /\ r.classId = "none" THEN "malformed" ELSE r.classId
    OBVIOUS
  <1>4. /\ f \in {"plain", "help", "version", "incomplete", "extra"}
        /\ c \in {"none", "clsid", "malformed"}
    BY <1>1, <1>2, <1>3 DEF Line
  <1>5. Whole(r) = [r EXCEPT !.form = f, !.classId = c]
    BY <1>2, <1>3 DEF Whole
  <1>6. /\ Whole(r) \in Line /\ Whole(r).form = f /\ Whole(r).classId = c
        /\ Whole(r).qt = r.qt
        /\ Whole(r).embedding = r.embedding /\ Whole(r).timeout = r.timeout
        /\ Whole(r).logging = r.logging /\ Whole(r).level = r.level
    BY <1>1, <1>4, <1>5 DEF Line
  <1>7. r.qt = "none" \/ f # "incomplete"
    BY <1>1, <1>2
  <1>8. Whole(r) \in Request
    BY <1>6, <1>7 DEF Request
  <1> QED
    BY <1>2, <1>3, <1>6, <1>8

(* What the first parse leaves of a line that the second accepts.          *)
FirstResult == Assigned(Whole(asked))

LEMMA FirstParseAccepts ==
    ASSUME asked \in Request, Complaint(asked) = "none"
    PROVE  /\ Misled => FirstResult = NothingParsed
           /\ ~Misled => /\ FirstResult.classId = (asked.classId = "clsid")
                         /\ FirstResult.embedding = asked.embedding
                         /\ FirstResult.logging = asked.logging
                         /\ FirstResult.level = asked.level
  <1>1. /\ asked.form = "plain" /\ asked.classId # "malformed"
        /\ asked.timeout # "malformed"
    BY DEF Complaint, StopsAtTimeout, StopsAtOnce
  <1>2. CASE Misled
    <2>1. StopsAtOnce(Whole(asked))
      BY <1>2, WholeTyped DEF Misled, StopsAtOnce
    <2> QED
      BY <1>2, <2>1 DEF FirstResult, Assigned
  <1>3. CASE ~Misled
    <2>1. /\ Whole(asked) \in Request /\ Whole(asked).classId = asked.classId
          /\ Whole(asked).form \in {"plain", "extra"}
          /\ Whole(asked).timeout = asked.timeout
      BY <1>1, <1>3, WholeTyped DEF Misled
    <2>2. ~StopsAtTimeout(Whole(asked))
      BY <1>1, <2>1 DEF StopsAtTimeout, StopsAtOnce
    <2> QED
      BY <1>3, <2>1, <2>2, WholeLineAssigned, WholeTyped DEF FirstResult
  <1> QED
    BY <1>2, <1>3

-----------------------------------------------------------------------------
BeforeLogger == {"tryParse", "logging"}
Serving == {"dispatch", "exec"}

(* The handlers are there from the logger on, and not before.              *)
HandlersWithLogger ==
    /\ at \in Statement \ (BeforeLogger \cup {"gone"}) => handlers
    /\ at \in BeforeLogger => ~handlers /\ logger.of = "nobody" /\ ~logged

(* What is known is what the parse that ran last has assigned, and the     *)
(* logger is one that the first calls for.                                 *)
ParsedAsAsked ==
    /\ at \in Statement \ (Serving \cup {"tryParse", "gone"}) => parsed = FirstResult
    /\ at \in Serving => parsed = Assigned(asked)
    /\ at \in Statement \ (BeforeLogger \cup {"gone"}) => logger \in LoggersFor(FirstResult)

(* A role is taken only for a line without errors.                         *)
RoleAsParsed ==
    /\ at \in Serving => Complaint(asked) = "none"
    /\ role # "none" =>
          /\ at \in {"exec", "gone"}
          /\ Complaint(asked) = "none" /\ parsed = Assigned(asked)
          /\ logger \in LoggersFor(FirstResult)
    /\ role = "surrogate" => IsSurrogate
    /\ role = "standalone" => ~IsSurrogate

StartupInv ==
    /\ StartupTypeOK /\ asked \in Requests
    /\ HandlersWithLogger /\ ParsedAsAsked /\ RoleAsParsed /\ NoSilentEnd

LEMMA StartupInitially ==
    ASSUME StartupInit, asked \in Requests
    PROVE  StartupInv
  <1>1. NothingParsed \in Parsed
    BY DEF NothingParsed, Parsed, SINGLEUSE
  <1>2. asked \in Request
    BY StartupAssumption
  <1>3. StartupTypeOK
    BY <1>1, <1>2 DEF StartupInit, StartupTypeOK, Statement, Logger
  <1>4. HandlersWithLogger /\ ParsedAsAsked /\ RoleAsParsed /\ NoSilentEnd
    BY DEF StartupInit, HandlersWithLogger, ParsedAsAsked, RoleAsParsed,
           NoSilentEnd, BeforeLogger, Serving
  <1> QED
    BY <1>3, <1>4 DEF StartupInv

LEMMA LoggerTyped ==
    ASSUME NEW result
    PROVE  LoggersFor(result) \subseteq Logger
  <1>1. SurrogateLoggers \subseteq Logger
    BY DEF SurrogateLoggers, Logger
  <1>2. StandaloneLogger(result) \in Logger
    BY DEF StandaloneLogger, Logger
  <1> QED
    BY <1>1, <1>2 DEF LoggersFor

(* Every step leaves the line alone, and the process once it has ended.    *)
LEMMA FirstParse ==
    ASSUME StartupInv, TryParse
    PROVE  StartupInv'
  <1>1. asked \in Request /\ FirstResult \in Parsed /\ FirstResult' = FirstResult
    BY AssignedTyped, WholeTyped DEF StartupInv, StartupTypeOK, FirstResult,
                                     TryParse
  <1>2. at = "tryParse" /\ role = "none" /\ logger.of = "nobody" /\ ~logged /\ ~handlers
    BY DEF StartupInv, HandlersWithLogger, RoleAsParsed, TryParse,
           BeforeLogger, StartupTypeOK
  <1>3. StartupTypeOK'
    BY <1>1 DEF StartupInv, StartupTypeOK, TryParse, Ends, Statement,
                FirstResult
  <1>4. HandlersWithLogger' /\ ParsedAsAsked' /\ RoleAsParsed'
    BY <1>1, <1>2 DEF TryParse, Ends, HandlersWithLogger, ParsedAsAsked,
                      RoleAsParsed, BeforeLogger, Serving, FirstResult
  <1>5. NoSilentEnd'
    BY <1>2 DEF TryParse, Ends, NoSilentEnd, EndedEarly, ReachesMalformed,
                StopsAtOnce, Whole
  <1> QED
    BY <1>1, <1>3, <1>4, <1>5 DEF StartupInv, TryParse

LEMMA LoggerSetUp ==
    ASSUME StartupInv, InitializeLogging
    PROVE  StartupInv'
  <1>1. at = "logging" /\ at' = "line" /\ role = "none" /\ parsed = FirstResult
    BY DEF StartupInv, RoleAsParsed, ParsedAsAsked, InitializeLogging,
           Statement, Serving
  <1>2. logger' \in Logger
    BY LoggerTyped DEF InitializeLogging
  <1>3. StartupTypeOK'
    BY <1>1, <1>2 DEF StartupInv, StartupTypeOK, InitializeLogging, Statement
  <1>4. FirstResult' = FirstResult
    BY DEF InitializeLogging, FirstResult
  <1>5. HandlersWithLogger' /\ ParsedAsAsked' /\ RoleAsParsed' /\ NoSilentEnd'
    BY <1>1, <1>4 DEF InitializeLogging, HandlersWithLogger, ParsedAsAsked,
                      RoleAsParsed, NoSilentEnd, BeforeLogger, Serving
  <1> QED
    BY <1>3, <1>5 DEF StartupInv, InitializeLogging

(* An exception: either there is no logger yet, or it is logged, to a file *)
(* or to stderr.                                                           *)
LEMMA ExceptionTraced ==
    ASSUME StartupInv, Terminates, UNCHANGED role, at # "gone",
           ~handlers => /\ logger.of = "nobody"
                        /\ \E l \in LoggersFor(parsed) : l.to # "stderr"
    PROVE  StartupInv'
  <1>1. StartupTypeOK'
    BY DEF StartupInv, StartupTypeOK, Terminates, Ends, Statement
  <1>2. role # "none" => at = "exec"
    BY DEF StartupInv, RoleAsParsed
  <1>3. FirstResult' = FirstResult /\ IsSurrogate' = IsSurrogate
    BY DEF Terminates, FirstResult, IsSurrogate
  <1>4. HandlersWithLogger' /\ ParsedAsAsked' /\ RoleAsParsed'
    BY <1>2, <1>3 DEF StartupInv, Terminates, Ends, HandlersWithLogger,
                      ParsedAsAsked, RoleAsParsed, BeforeLogger, Serving
  <1>5. NoSilentEnd'
    <2>1. CASE handlers
      <3>1. logger' = logger /\ (logger.to # "stderr" => logged')
        BY <2>1 DEF Terminates
      <3> QED
        BY <3>1 DEF NoSilentEnd
    <2>2. CASE ~handlers
      BY <2>2 DEF Terminates, NoSilentEnd, EndedEarly
    <2> QED
      BY <2>1, <2>2
  <1> QED
    BY <1>1, <1>4, <1>5 DEF StartupInv, Terminates

LEMMA Failures ==
    ASSUME StartupInv,
           LogFileFails \/ InitializeFails \/ ConfigureFails \/ RunAsSurrogateFails
    PROVE  StartupInv'
  <1>1. Terminates /\ UNCHANGED role
    BY DEF LogFileFails, InitializeFails, ConfigureFails, RunAsSurrogateFails
  <1>2. at # "gone"
    BY DEF LogFileFails, InitializeFails, ConfigureFails, RunAsSurrogateFails,
           Following
  <1>3. CASE LogFileFails
    <2>1. logger.of = "nobody" /\ \E l \in LoggersFor(parsed) : l.to # "stderr"
      BY <1>3 DEF StartupInv, HandlersWithLogger, LogFileFails, BeforeLogger
    <2> QED
      BY <1>1, <1>2, <2>1, ExceptionTraced
  <1>4. CASE InitializeFails \/ ConfigureFails \/ RunAsSurrogateFails
    <2>1. at \in {"languages", "com", "security", "dispatch"}
      BY <1>4 DEF InitializeFails, ConfigureFails, RunAsSurrogateFails,
                  Following
    <2>2. handlers
      BY <2>1 DEF StartupInv, HandlersWithLogger, BeforeLogger, Statement
    <2> QED
      BY <1>1, <1>2, <2>2, ExceptionTraced
  <1> QED
    BY <1>3, <1>4

LEMMA Initializing ==
    ASSUME StartupInv, Initialize \/ LineIsWritten
    PROVE  StartupInv'
  <1>1. /\ at \in {"line", "languages", "com", "security"}
        /\ at' \in {"languages", "com", "security", "parse"}
        /\ UNCHANGED <<asked, parsed, logger, handlers, boxes, ended, logged, role>>
    BY DEF Initialize, LineIsWritten, Following
  <1>2. StartupTypeOK'
    BY <1>1 DEF StartupInv, StartupTypeOK, Statement
  <1>3. FirstResult' = FirstResult /\ IsSurrogate' = IsSurrogate
    BY <1>1 DEF FirstResult, IsSurrogate
  <1>4. HandlersWithLogger' /\ ParsedAsAsked' /\ RoleAsParsed' /\ NoSilentEnd'
    BY <1>1, <1>3 DEF StartupInv, HandlersWithLogger, ParsedAsAsked,
                      RoleAsParsed, NoSilentEnd, BeforeLogger, Serving,
                      Statement
  <1> QED
    BY <1>1, <1>2, <1>4 DEF StartupInv

(* The second parse reads the line that Qt has left.                       *)
LEMMA SecondParse ==
    ASSUME StartupInv, Parse \/ ParseComplains
    PROVE  StartupInv'
  <1>1. /\ at = "parse" /\ handlers /\ role = "none"
        /\ logger \in LoggersFor(FirstResult)
    BY DEF StartupInv, HandlersWithLogger, ParsedAsAsked, RoleAsParsed, Parse,
           ParseComplains, BeforeLogger, Statement
  <1>2. UNCHANGED <<asked, logger, handlers, logged, role>>
    BY DEF Parse, ParseComplains
  <1>3. FirstResult' = FirstResult
    BY <1>2 DEF FirstResult
  <1>4. CASE Parse
    <2>1. Assigned(asked) \in Parsed
      BY AssignedTyped DEF StartupInv, StartupTypeOK
    <2>2. StartupTypeOK'
      BY <1>2, <1>4, <2>1 DEF StartupInv, StartupTypeOK, Parse, SpecBox,
                              Statement
    <2>3. HandlersWithLogger' /\ ParsedAsAsked' /\ RoleAsParsed' /\ NoSilentEnd'
      BY <1>1, <1>2, <1>3, <1>4 DEF Parse, HandlersWithLogger, ParsedAsAsked,
                                    RoleAsParsed, NoSilentEnd, BeforeLogger,
                                    Serving
    <2> QED
      BY <1>2, <2>2, <2>3 DEF StartupInv
  <1>5. CASE ParseComplains
    <2>1. Complaint(asked) \in {"help", "version", "error"}
      BY <1>5 DEF ParseComplains, Complaint
    <2>2. StartupTypeOK' /\ boxes' # {}
      BY <1>2, <1>5, <2>1
         DEF StartupInv, StartupTypeOK, ParseComplains, Ends, SpecBox,
             Statement
    <2>3. HandlersWithLogger' /\ ParsedAsAsked' /\ RoleAsParsed' /\ NoSilentEnd'
      BY <1>1, <1>2, <1>3, <1>5, <2>2 DEF ParseComplains, Ends,
                                          HandlersWithLogger, ParsedAsAsked,
                                          RoleAsParsed, NoSilentEnd,
                                          BeforeLogger, Serving
    <2> QED
      BY <1>2, <2>2, <2>3 DEF StartupInv
  <1> QED
    BY <1>4, <1>5

LEMMA Dispatching ==
    ASSUME StartupInv, Configure \/ RunAsSurrogate \/ RunAsStandalone
    PROVE  StartupInv'
  <1>1. /\ at = "dispatch" /\ parsed = Assigned(asked) /\ handlers
        /\ logger \in LoggersFor(FirstResult) /\ Complaint(asked) = "none"
    BY DEF StartupInv, HandlersWithLogger, ParsedAsAsked, RoleAsParsed,
           Configure, RunAsSurrogate, RunAsStandalone, BeforeLogger, Serving,
           Statement
  <1>2. UNCHANGED <<asked, parsed, logger, handlers, boxes, logged>>
    BY DEF Configure, RunAsSurrogate, RunAsStandalone
  <1>3. FirstResult' = FirstResult /\ IsSurrogate' = IsSurrogate
    BY <1>2 DEF FirstResult, IsSurrogate
  <1>4. /\ at' \in {"exec", "gone"}
        /\ ended' \in {"not", "exit", "abort"}
        /\ \/ role' \in {"register", "unregister"}
           \/ role' = "surrogate" /\ IsSurrogate
           \/ role' = "standalone" /\ ~IsSurrogate
    BY DEF StartupInv, StartupTypeOK, Configure, RunAsSurrogate,
           RunAsStandalone, Ends
  <1>5. StartupTypeOK'
    BY <1>2, <1>4 DEF StartupInv, StartupTypeOK, Statement
  <1>6. HandlersWithLogger' /\ ParsedAsAsked' /\ RoleAsParsed' /\ NoSilentEnd'
    BY <1>1, <1>2, <1>3, <1>4 DEF HandlersWithLogger, ParsedAsAsked,
                                  RoleAsParsed, NoSilentEnd, BeforeLogger,
                                  Serving
  <1> QED
    BY <1>2, <1>5, <1>6 DEF StartupInv

(* main returns at once only where the line asks for nothing.              *)
LEMMA Returning ==
    ASSUME StartupInv, ReturnAtOnce
    PROVE  StartupInv'
  <1>1. /\ at = "dispatch" /\ at' = "gone" /\ ended' = "exit" /\ role = "none"
        /\ parsed = Assigned(asked) /\ Complaint(asked) = "none"
        /\ UNCHANGED <<asked, parsed, logger, handlers, boxes, logged, role>>
    BY DEF StartupInv, ParsedAsAsked, RoleAsParsed, ReturnAtOnce, Ends,
           BeforeLogger, Serving, Statement
  <1>2. asked.form = "plain" /\ ~StopsAtTimeout(asked)
    BY <1>1 DEF Complaint
  <1>3. asked.classId # "malformed" /\ asked.timeout # "malformed"
    BY <1>2 DEF StopsAtTimeout, StopsAtOnce
  <1>4. asked \in Request
    BY DEF StartupInv, StartupTypeOK
  <1>5. ~(asked.classId = "clsid" /\ asked.embedding)
    BY <1>1, <1>2, <1>4, WholeLineAssigned DEF ReturnAtOnce, IsSurrogate
  <1>6. asked.clsid = <<>> /\ asked.ClassId = <<>>
    <2>1. Specs(Items(asked)) = <<>>
      BY <1>1, <1>2, <1>4, WholeLineAssigned DEF ReturnAtOnce
    <2>2. PICK items \in Seq(Item) : items = Items(asked)
      BY <1>4, ItemsTyped
    <2>3. DOMAIN items = {}
      BY <1>4, <2>1, <2>2, ItemsTyped
    <2>4. items = <<>>
      BY <2>2, <2>3
    <2> QED
      BY <2>2, <2>4 DEF Items
  <1>7. asked.registry \subseteq {"settings"}
    BY <1>1, <1>2, <1>4, WholeLineAssigned
       DEF ReturnAtOnce, Configures, SetsAppId, Unregisters, Request, Line
  <1>8. NothingAsked'
    BY <1>1, <1>2, <1>3, <1>5, <1>6, <1>7 DEF NothingAsked
  <1>9. StartupTypeOK'
    BY <1>1 DEF StartupInv, StartupTypeOK, Statement
  <1>10. HandlersWithLogger' /\ ParsedAsAsked' /\ RoleAsParsed' /\ NoSilentEnd'
    BY <1>1, <1>8 DEF HandlersWithLogger, ParsedAsAsked, RoleAsParsed,
                      NoSilentEnd, BeforeLogger, Serving
  <1> QED
    BY <1>1, <1>9, <1>10 DEF StartupInv

LEMMA StartupStutters ==
    ASSUME StartupInv, UNCHANGED startupVars
    PROVE  StartupInv'
  <1>1. FirstResult' = FirstResult /\ IsSurrogate' = IsSurrogate /\ EndedEarly' = EndedEarly
        /\ NothingAsked' = NothingAsked
    BY DEF startupVars, FirstResult, IsSurrogate, EndedEarly, NothingAsked
  <1> QED
    BY <1>1 DEF startupVars, StartupInv, StartupTypeOK, HandlersWithLogger,
                ParsedAsAsked, RoleAsParsed, NoSilentEnd

(* What a process knows and has done at each statement of main.            *)
THEOREM StartupInductive == Spec => []StartupInv
  <1>1. Init => StartupInv
    <2>1. Init => StartupInit /\ asked \in Requests
      BY InputsAssumption DEF Init
    <2> QED
      BY <2>1, StartupInitially
  <1>2. StartupInv /\ [Next]_vars => StartupInv'
    <2>1. [Next]_vars => StartupStep \/ LineIsWritten \/ UNCHANGED startupVars
      BY DEF Next, vars, Starts, WritesLine, GoesOn, Answers
    <2> QED
      BY <2>1, FirstParse, LoggerSetUp, Failures, Initializing, SecondParse, Dispatching,
         Returning, StartupStutters DEF StartupStep
  <1> QED
    BY <1>1, <1>2, PTL DEF Spec

(* A process that was asked for something and has a log file does not end  *)
(* without a trace of why.                                                 *)
THEOREM EndsAreTraced == Spec => []NoSilentEnd
  <1>1. StartupInv => NoSilentEnd
    BY DEF StartupInv
  <1> QED
    BY <1>1, StartupInductive, PTL

(* The logger of a process that serves is one for the role it has taken.   *)
LEMMA LoggerForRole ==
    ASSUME StartupInv, role \in {"surrogate", "standalone"}
    PROVE  /\ role = "surrogate" => logger \in SurrogateLoggers
           /\ role = "standalone" => logger = StandaloneLogger(FirstResult)
  <1>1. /\ asked \in Request /\ Complaint(asked) = "none" /\ parsed = Assigned(asked)
        /\ logger \in LoggersFor(FirstResult)
        /\ role = "surrogate" <=> IsSurrogate
    BY DEF StartupInv, StartupTypeOK, RoleAsParsed
  <1>2. /\ parsed.classId = (asked.classId = "clsid")
        /\ parsed.embedding = asked.embedding
    BY <1>1, WholeLineAssigned DEF Complaint
  <1>3. CASE Misled
    <2>1. ~IsSurrogate
      BY <1>2, <1>3 DEF Misled, IsSurrogate
    <2>2. ~FirstResult.classId
      BY <1>1, <1>3, FirstParseAccepts DEF NothingParsed
    <2> QED
      BY <1>1, <2>1, <2>2 DEF LoggersFor
  <1>4. CASE ~Misled
    <2>1. FirstResult.classId /\ FirstResult.embedding <=> IsSurrogate
      BY <1>1, <1>2, <1>4, FirstParseAccepts DEF IsSurrogate
    <2> QED
      BY <1>1, <2>1 DEF LoggersFor
  <1> QED
    BY <1>3, <1>4

(* A process that serves classes logs as the command line asks for its     *)
(* role, although the logger is set up from a parse that may read another  *)
(* line, and before errors are looked for.                                 *)
THEOREM LogsAsAsked == Spec => []LoggingAsAsked
  <1>1. ASSUME StartupInv PROVE LoggingAsAsked
    <2>1. asked \in Request
      BY <1>1 DEF StartupInv, StartupTypeOK
    <2>2. ASSUME role = "surrogate" PROVE logger.of = "surrogate"
      BY <1>1, <2>2, LoggerForRole DEF SurrogateLoggers
    <2>3. ASSUME role = "standalone"
          PROVE  /\ logger.of = "standalone"
                 /\ logger.to = "stderr" <=> asked.logging = {} \/ Misled
                 /\ "file" \in asked.logging /\ ~Misled => logger.to = "file"
                 /\ "dir" \in asked.logging /\ ~Misled => logger.to \in {"file", "dir"}
                 /\ logger.level = "known" <=> asked.level = "known" /\ ~Misled
      <3>1. logger = StandaloneLogger(FirstResult) /\ Complaint(asked) = "none"
        BY <1>1, <2>3, LoggerForRole DEF StartupInv, RoleAsParsed
      <3>2. asked.logging \subseteq {"enable", "file", "dir"}
        BY <2>1 DEF Request, Line
      <3>3. CASE Misled
        <4>1. FirstResult.logging = {} /\ FirstResult.level = "none"
          BY <2>1, <3>1, <3>3, FirstParseAccepts DEF NothingParsed
        <4> QED
          BY <3>1, <3>3, <4>1 DEF StandaloneLogger
      <3>4. CASE ~Misled
        <4>1. FirstResult.logging = asked.logging /\ FirstResult.level = asked.level
          BY <2>1, <3>1, <3>4, FirstParseAccepts
        <4>2. /\ logger.of = "standalone"
              /\ logger.to = IF "file" \in asked.logging THEN "file"
                             ELSE IF "dir" \in asked.logging THEN "dir"
                             ELSE IF "enable" \in asked.logging THEN "default" ELSE "stderr"
              /\ logger.level = IF asked.level = "known" THEN "known" ELSE "info"
          BY <3>1, <4>1 DEF StandaloneLogger
        <4> QED
          BY <3>2, <3>4, <4>2
      <3> QED
        BY <3>3, <3>4
    <2> QED
      BY <2>2, <2>3 DEF LoggingAsAsked
  <1> QED
    BY <1>1, StartupInductive, PTL

(* What the README says of one class, and of one mode of the runtime.      *)
AsDocumented(spec, item, suspend) ==
    /\ spec.regcls = DocumentedRegcls(item, suspend)
    /\ spec.create = Or(UNION item.cc, {"INPROC_SERVER"})
    /\ spec.register = Or(UNION item.cr, {"LOCAL_SERVER"})
    /\ spec.alias = IF item.a = "other" THEN "other" ELSE "clsid"

(* What becomes of one specification, from its text to the registration.   *)
LEMMA ItemAsDocumented ==
    ASSUME NEW item, NEW suspend, NEW spec,
           spec = Sanitize(FromString(item), GlobalRegcls(Regcls(asked), suspend))
    PROVE  /\ AsDocumented(spec, item, suspend)
           /\ "MULTIPLEUSE" \in spec.regcls =>
                 "MULTIPLEUSE" \in Regcls(asked) \/ "MULTIPLEUSE" \in FromString(item).regcls
  <1>1. /\ FromString(item).alias = IF item.a \in {"clsid", "other"} THEN item.a ELSE "null"
        /\ FromString(item).create = UNION item.cc
        /\ FromString(item).register = UNION item.cr
        /\ FromString(item).regcls = UNION item.r
        /\ FromString(item).explicit = (item.r # {})
    BY DEF FromString
  <1>2. GlobalRegcls(Regcls(asked), suspend) = {"MULTI_SEPARATE"}
         \cup (IF "multiple-use" \in asked.modes THEN {"MULTIPLEUSE"} ELSE {})
         \cup (IF suspend THEN {"SUSPENDED"} ELSE {})
    BY DEF GlobalRegcls, Regcls, SINGLEUSE
  <1>3. spec.regcls = IF item.r # {} THEN UNION item.r ELSE GlobalRegcls(Regcls(asked), suspend)
    <2>1. GlobalRegcls(Regcls(asked), suspend) # {}
      BY <1>2
    <2> QED
      BY <1>1, <2>1 DEF Sanitize
  <1>4. spec.regcls = DocumentedRegcls(item, suspend)
    BY <1>2, <1>3 DEF DocumentedRegcls
  <1>5. /\ spec.create = Or(UNION item.cc, {"INPROC_SERVER"})
        /\ spec.register = Or(UNION item.cr, {"LOCAL_SERVER"})
        /\ spec.alias = IF item.a = "other" THEN "other" ELSE "clsid"
    BY <1>1 DEF Sanitize, Or
  <1>6. "MULTIPLEUSE" \in spec.regcls =>
          "MULTIPLEUSE" \in Regcls(asked) \/ "MULTIPLEUSE" \in FromString(item).regcls
    BY <1>1, <1>3 DEF GlobalRegcls
  <1> QED
    BY <1>4, <1>5, <1>6 DEF AsDocumented

LEMMA HostedAsDocumented ==
    ASSUME StartupInv, role = "standalone", NEW i \in DOMAIN HostedCommand.specs,
           NEW suspend, NEW item, item = Items(asked)[i],
           NEW spec, spec = Sanitize(HostedCommand.specs[i],
                                     GlobalRegcls(HostedCommand.regcls, suspend))
    PROVE  /\ AsDocumented(spec, item, suspend)
           /\ "MULTIPLEUSE" \in spec.regcls => HasMultipleUse(HostedCommand)
  <1>1. asked \in Request
    BY DEF StartupInv, StartupTypeOK
  <1>2. parsed = Assigned(asked) /\ Complaint(asked) = "none"
    BY DEF StartupInv, RoleAsParsed
  <1>3. ~StopsAtTimeout(asked)
    BY <1>2 DEF Complaint
  <1>4. HostedCommand.specs = Specs(Items(asked)) /\ HostedCommand.regcls = Regcls(asked)
    BY <1>1, <1>2, <1>3, WholeLineAssigned DEF HostedCommand
  <1>5. item \in Item /\ HostedCommand.specs[i] = FromString(item)
    BY <1>1, <1>4, ItemsTyped
  <1>6. spec = Sanitize(FromString(item), GlobalRegcls(Regcls(asked), suspend))
    BY <1>4, <1>5
  <1>7. /\ AsDocumented(spec, item, suspend)
        /\ "MULTIPLEUSE" \in spec.regcls =>
              "MULTIPLEUSE" \in Regcls(asked) \/ "MULTIPLEUSE" \in FromString(item).regcls
    BY <1>6, ItemAsDocumented
  <1>8. "MULTIPLEUSE" \in spec.regcls => HasMultipleUse(HostedCommand)
    BY <1>4, <1>5, <1>7 DEF HasMultipleUse
  <1> QED
    BY <1>7, <1>8

(* Every class a process hosts is registered as the README says, and the   *)
(* runtime is in multiple-use mode if one comes out so.                    *)
THEOREM HostsAsDocumented == Spec => []ClassesAsDocumented
  <1>1. ASSUME StartupInv, role = "standalone", NEW i \in DOMAIN HostedCommand.specs,
               NEW suspend \in BOOLEAN
        PROVE  LET item == Items(asked)[i]
                   spec == Sanitize(HostedCommand.specs[i],
                                    GlobalRegcls(HostedCommand.regcls, suspend))
               IN AsDocumented(spec, item, suspend)
                  /\ ("MULTIPLEUSE" \in spec.regcls => HasMultipleUse(HostedCommand))
    BY <1>1, HostedAsDocumented
  <1>2. StartupInv => ClassesAsDocumented
    BY <1>1 DEF ClassesAsDocumented, AsDocumented
  <1> QED
    BY <1>2, StartupInductive, PTL
-----------------------------------------------------------------------------
(***************************************************************************)
(* Numbers read from names (ClassInfo).  Value is a fold, a function       *)
(* defined by recursion over subsets of positions: that there is such a    *)
(* function, and that its values are numbers, takes an induction.  It is   *)
(* done with least elements of sets of naturals.                           *)
(***************************************************************************)
LEMMA Least ==
    ASSUME NEW T \in SUBSET Nat, T # {}
    PROVE  \E x \in T : \A y \in T : x <= y
  <1>1. PICK R : R = OpToRel(<, Nat)
    OBVIOUS
  <1>2. IsWellFoundedOn(R, Nat)
    BY <1>1, NatLessThanWellFounded
  <1>3. PICK x \in T : \A y \in T : ~(<<y, x>> \in R)
    BY <1>2, WFMin
  <1>4. ASSUME NEW y \in T, y < x PROVE FALSE
    <2>1. <<y, x>> \in R
      BY <1>1, <1>4 DEF OpToRel
    <2> QED
      BY <1>3, <2>1
  <1> QED
    BY <1>4

LEMMA Greatest ==
    ASSUME NEW n \in Nat, NEW S \in SUBSET (0 .. n), S # {}
    PROVE  Max(S) \in S /\ \A y \in S : y <= Max(S)
  <1>1. PICK T : T = {n - x : x \in S}
    OBVIOUS
  <1>2. T \in SUBSET Nat /\ T # {}
    <2>1. \A x \in S : n - x \in Nat /\ n - x \in T
      BY <1>1
    <2>2. \A e \in T : e \in Nat
      BY <1>1, <2>1
    <2>3. PICK x : x \in S
      OBVIOUS
    <2>4. n - x \in T
      BY <2>1, <2>3
    <2> QED
      BY <2>2, <2>4
  <1>3. PICK d \in T : \A e \in T : d <= e
    BY <1>2, Least
  <1>4. PICK x \in S : d = n - x
    BY <1>1, <1>3
  <1>5. \A y \in S : y <= x
    <2> TAKE y \in S
    <2>1. n - y \in T
      BY <1>1
    <2> QED
      BY <1>3, <1>4, <2>1
  <1>6. \A y \in S : x >= y
    BY <1>5
  <1>7. Max(S) \in S /\ \A y \in S : Max(S) >= y
    BY <1>6 DEF Max
  <1> QED
    BY <1>7

(* The fold without its last digit, for the positions in s.                *)
Folded(g, base, digits, s) ==
    IF s = {} THEN 0 ELSE g[s \ {Max(s)}] * base + digits[Max(s)]

LEMMA PositionsShrink ==
    ASSUME NEW digits \in Seq(Nat), NEW s \in SUBSET DOMAIN digits
    PROVE  /\ IsFiniteSet(s) /\ Cardinality(s) \in Nat /\ Cardinality(s) <= Len(digits)
           /\ Cardinality(s) = 0 <=> s = {}
           /\ s # {} => /\ Max(s) \in s
                        /\ s \ {Max(s)} \in SUBSET DOMAIN digits
                        /\ Cardinality(s \ {Max(s)}) = Cardinality(s) - 1
  <1>1. Len(digits) \in Nat /\ DOMAIN digits = 1 .. Len(digits)
    OBVIOUS
  <1>2. IsFiniteSet(DOMAIN digits) /\ Cardinality(DOMAIN digits) = Len(digits)
    <2>1. PICK n : n = Len(digits)
      OBVIOUS
    <2>5. n \in Nat
      BY <1>1, <2>1
    <2>2. 1 \in Int
      OBVIOUS
    <2>3. /\ IsFiniteSet(1 .. n)
          /\ Cardinality(1 .. n) = IF 1 > n THEN 0 ELSE n - 1 + 1
      BY <2>2, <2>5, FS_Interval
    <2>4. (IF 1 > n THEN 0 ELSE n - 1 + 1) = n
      BY <2>5
    <2> QED
      BY <1>1, <2>1, <2>3, <2>4
  <1>3. IsFiniteSet(s) /\ Cardinality(s) <= Len(digits) /\ Cardinality(s) \in Nat
    BY <1>2, FS_Subset, FS_CardinalityType
  <1>4. ASSUME s # {} PROVE Max(s) \in s /\ Cardinality(s \ {Max(s)}) = Cardinality(s) - 1
    <2>1. s \in SUBSET (0 .. Len(digits))
      BY <1>1
    <2>2. Max(s) \in s
      BY <1>1, <1>4, <2>1, Greatest
    <2> QED
      BY <1>3, <2>2, FS_RemoveElement
  <1> QED
    BY <1>1, <1>3, <1>4, FS_EmptySet

LEMMA FoldedTyped ==
    ASSUME NEW base \in Nat, NEW digits \in Seq(Nat),
           NEW g, NEW s \in SUBSET DOMAIN digits,
           s # {} => g[s \ {Max(s)}] \in Nat
    PROVE  Folded(g, base, digits, s) \in Nat
  <1>1. CASE s = {}
    BY <1>1 DEF Folded
  <1>2. CASE s # {}
    <2>1. Max(s) \in DOMAIN digits
      BY <1>2, PositionsShrink
    <2>2. digits[Max(s)] \in Nat
      BY <2>1
    <2>3. PICK a \in Nat : a = g[s \ {Max(s)}]
      BY <1>2
    <2>4. a * base \in Nat
      OBVIOUS
    <2>5. Folded(g, base, digits, s) = a * base + digits[Max(s)]
      BY <1>2, <2>3 DEF Folded
    <2> QED
      BY <2>2, <2>4, <2>5
  <1> QED
    BY <1>1, <1>2

(* There is a function that folds sets of up to n positions.               *)
FoldsUpTo(base, digits, n) ==
    \E g \in [SUBSET DOMAIN digits -> Nat] :
        \A s \in SUBSET DOMAIN digits :
            Cardinality(s) <= n => g[s] = Folded(g, base, digits, s)

LEMMA FoldExists ==
    ASSUME NEW base \in Nat, NEW digits \in Seq(Nat), NEW n \in Nat
    PROVE  FoldsUpTo(base, digits, n)
  <1>1. PICK Bad : Bad = {m \in Nat : ~FoldsUpTo(base, digits, m)}
    OBVIOUS
  <1>2. SUFFICES ASSUME Bad # {} PROVE FALSE
    BY <1>1
  <1>3. PICK m \in Bad : \A k \in Bad : m <= k
    BY <1>1, <1>2, Least
  <1>4. m \in Nat /\ ~FoldsUpTo(base, digits, m)
    BY <1>1
  <1>5. CASE m = 0
    <2>1. PICK g : g = [s \in SUBSET DOMAIN digits |-> 0]
      OBVIOUS
    <2>2. ASSUME NEW s \in SUBSET DOMAIN digits, Cardinality(s) <= 0
          PROVE  g[s] = Folded(g, base, digits, s)
      <3>1. PICK c \in Nat : c = Cardinality(s)
        BY PositionsShrink
      <3>2. c = 0
        BY <2>2, <3>1
      <3>3. s = {}
        BY <3>1, <3>2, PositionsShrink
      <3> QED
        BY <2>1, <3>3 DEF Folded
    <2>3. g \in [SUBSET DOMAIN digits -> Nat]
      BY <2>1
    <2> QED
      BY <1>4, <1>5, <2>2, <2>3 DEF FoldsUpTo
  <1>6. CASE m # 0
    <2>1. m - 1 \in Nat /\ m - 1 \notin Bad
      BY <1>3, <1>4, <1>6
    <2>2. PICK g \in [SUBSET DOMAIN digits -> Nat] :
            \A s \in SUBSET DOMAIN digits :
                Cardinality(s) <= m - 1 => g[s] = Folded(g, base, digits, s)
      BY <1>1, <2>1 DEF FoldsUpTo
    <2>3. PICK h : h = [s \in SUBSET DOMAIN digits |->
                          IF Cardinality(s) < m THEN g[s] ELSE Folded(g, base, digits, s)]
      OBVIOUS
    <2>4. \A s \in SUBSET DOMAIN digits : Folded(g, base, digits, s) \in Nat
      <3> TAKE s \in SUBSET DOMAIN digits
      <3>1. s # {} => g[s \ {Max(s)}] \in Nat
        BY PositionsShrink
      <3> QED
        BY <3>1, FoldedTyped
    <2>5. h \in [SUBSET DOMAIN digits -> Nat]
      BY <2>3, <2>4
    <2>6. ASSUME NEW s \in SUBSET DOMAIN digits, Cardinality(s) <= m
          PROVE  h[s] = Folded(h, base, digits, s)
      <3>1. h[s] = Folded(g, base, digits, s)
        <4>1. CASE Cardinality(s) < m
          <5>1. Cardinality(s) <= m - 1
            <6>1. PICK c \in Nat : c = Cardinality(s)
              BY PositionsShrink
            <6>2. c <= m - 1
              BY <1>4, <4>1, <6>1
            <6> QED
              BY <6>1, <6>2
          <5> QED
            BY <2>2, <2>3, <4>1, <5>1
        <4>2. CASE ~(Cardinality(s) < m)
          BY <2>3, <4>2
        <4> QED
          BY <4>1, <4>2
      <3>2. CASE s = {}
        BY <3>1, <3>2 DEF Folded
      <3>3. CASE s # {}
        <4>1. PICK r \in SUBSET DOMAIN digits : r = s \ {Max(s)}
          BY <3>3, PositionsShrink
        <4>2. Cardinality(r) = Cardinality(s) - 1 /\ Cardinality(s) \in Nat
          BY <3>3, <4>1, PositionsShrink
        <4>3. Cardinality(r) < m
          BY <1>4, <2>6, <4>2
        <4>4. h[r] = g[r]
          BY <2>3, <4>3
        <4> QED
          BY <3>1, <3>3, <4>1, <4>4 DEF Folded
      <3> QED
        BY <3>2, <3>3
    <2> QED
      BY <1>4, <2>5, <2>6 DEF FoldsUpTo
  <1> QED
    BY <1>5, <1>6

(* What is read from digits is a number.                                   *)
LEMMA ValueTyped ==
    ASSUME NEW base \in Nat, NEW digits \in Seq(Nat)
    PROVE  Value(base, digits) \in Nat
  <1> DEFINE Positions == SUBSET DOMAIN digits
  <1>1. \E g : g = [s \in Positions |-> Folded(g, base, digits, s)]
    <2>1. Len(digits) \in Nat
      OBVIOUS
    <2>2. PICK g \in [Positions -> Nat] :
            \A s \in Positions : Cardinality(s) <= Len(digits) => g[s] = Folded(g, base, digits, s)
      BY <2>1, FoldExists DEF FoldsUpTo
    <2>3. \A s \in Positions : g[s] = Folded(g, base, digits, s)
      <3> TAKE s \in Positions
      <3>1. Cardinality(s) <= Len(digits)
        BY PositionsShrink
      <3> QED
        BY <2>2, <3>1
    <2>4. g = [s \in Positions |-> g[s]]
      BY <2>2
    <2> QED
      BY <2>3, <2>4
  <1>2. PICK iter : iter = CHOOSE g : g = [s \in Positions |-> Folded(g, base, digits, s)]
    OBVIOUS
  <1>3. iter = [s \in Positions |-> Folded(iter, base, digits, s)]
    BY <1>1, <1>2
  <1>4. \A s \in Positions : iter[s] \in Nat
    <2>1. PICK Bad : Bad = {Cardinality(s) : s \in {t \in Positions : iter[t] \notin Nat}}
      OBVIOUS
    <2>2. SUFFICES ASSUME Bad # {} PROVE FALSE
      BY <2>1
    <2>3. Bad \in SUBSET Nat
      <3>1. \A s \in Positions : Cardinality(s) \in Nat
        BY PositionsShrink
      <3> QED
        BY <2>1, <3>1
    <2>4. PICK c \in Bad : \A d \in Bad : c <= d
      BY <2>2, <2>3, Least
    <2>5. PICK s \in Positions : iter[s] \notin Nat /\ c = Cardinality(s)
      BY <2>1, <2>4
    <2>6. ASSUME s # {} PROVE iter[s \ {Max(s)}] \in Nat
      <3>1. PICK r \in Positions : r = s \ {Max(s)}
        BY <2>6, PositionsShrink
      <3>2. Cardinality(r) = c - 1
        BY <2>5, <2>6, <3>1, PositionsShrink
      <3>3. c - 1 \notin Bad
        BY <2>3, <2>4
      <3> QED
        BY <2>1, <3>1, <3>2, <3>3
    <2>7. iter[s] = Folded(iter, base, digits, s)
      BY <1>3, <2>5
    <2>8. iter[s] \in Nat
      BY <2>6, <2>7, FoldedTyped
    <2> QED
      BY <2>5, <2>8
  <1>5. Value(base, digits) = iter[DOMAIN digits]
    BY <1>2 DEF Value, FoldLeft, MapThenFoldSet, Folded
  <1> QED
    BY <1>4, <1>5

LEMMA NameTyped ==
    ASSUME NEW k \in ToSet(KeyOrder)
    PROVE  /\ k \in Name
           /\ k.major \in Seq(Nat) /\ k.minor \in Seq(Nat)
           /\ Value(16, k.major) \in Nat /\ Value(16, k.minor) \in Nat
  <1>1. PICK i \in DOMAIN KeyOrder : k = KeyOrder[i]
    BY DEF ToSet
  <1>2. k \in Name
    BY <1>1, ClassInfoAssumption
  <1>3. k.major \in Seq(0 .. 15) /\ k.minor \in Seq(0 .. 15)
    BY <1>2 DEF Name
  <1>4. ASSUME NEW d \in Seq(0 .. 15) PROVE d \in Seq(Nat)
    <2>1. \A n \in DOMAIN d : d[n] \in Nat
      OBVIOUS
    <2> QED
      BY <2>1
  <1>5. k.major \in Seq(Nat) /\ k.minor \in Seq(Nat)
    BY <1>3, <1>4
  <1>6. Value(16, k.major) \in Nat /\ Value(16, k.minor) \in Nat
    BY <1>5, ValueTyped
  <1> QED
    BY <1>2, <1>5, <1>6

(* The scan of digits stops somewhere.                                     *)
LEMMA DecimalPartTyped ==
    ASSUME NEW digits \in Seq(Nat)
    PROVE  DecimalPart(digits) \in Seq(Nat)
  <1> DEFINE IsEnd(n) == \A i \in 1 .. n : digits[i] <= 9
             Stops(n) == IsEnd(n) /\ (n = Len(digits) \/ ~IsEnd(n + 1))
  <1>1. Len(digits) \in Nat
    OBVIOUS
  <1>2. PICK T : T = {n \in 0 .. Len(digits) : n = Len(digits) \/ ~IsEnd(n + 1)}
    OBVIOUS
  <1>3. T \in SUBSET Nat /\ Len(digits) \in T
    BY <1>1, <1>2
  <1>4. PICK n \in T : \A m \in T : n <= m
    BY <1>3, Least
  <1>5. n \in 0 .. Len(digits) /\ (n = Len(digits) \/ ~IsEnd(n + 1))
    BY <1>2
  <1>6. IsEnd(n)
    <2>1. CASE n = 0
      BY <2>1
    <2>2. CASE n # 0
      <3>1. n - 1 \in 0 .. Len(digits) /\ n - 1 \notin T /\ n - 1 # Len(digits)
        BY <1>1, <1>3, <1>4, <1>5, <2>2
      <3>2. n - 1 + 1 = n
        BY <1>1, <1>5
      <3> QED
        BY <1>2, <3>1, <3>2
    <2> QED
      BY <2>1, <2>2
  <1>7. PICK c : c = CHOOSE m \in 0 .. Len(digits) : Stops(m)
    OBVIOUS
  <1>8. \E m \in 0 .. Len(digits) : Stops(m)
    BY <1>5, <1>6
  <1> HIDE DEF Stops
  <1>9. c \in 0 .. Len(digits)
    BY <1>7, <1>8
  <1>10. DecimalPart(digits) = SubSeq(digits, 1, c)
    BY <1>7 DEF DecimalPart, Stops
  <1>11. SubSeq(digits, 1, c) \in Seq(Nat)
    BY <1>1, <1>9
  <1> QED
    BY <1>10, <1>11

LEMMA ScannedTyped ==
    ASSUME NEW k \in ToSet(KeyOrder)
    PROVE  Scanned(k) \in Nat \X Nat /\ Stored(Scanned(k)) \in (0 .. Word - 1) \X (0 .. Word - 1)
  <1>1. Value(10, k.major) \in Nat
    BY NameTyped, ValueTyped
  <1>2. DecimalPart(k.minor) \in Seq(Nat)
    BY NameTyped, DecimalPartTyped
  <1>3. Value(10, DecimalPart(k.minor)) \in Nat
    BY <1>2, ValueTyped
  <1>4. Scanned(k) \in Nat \X Nat
    BY <1>1, <1>3 DEF Scanned
  <1>5. \A n \in Nat : n % Word \in 0 .. Word - 1
    BY ClassInfoAssumption
  <1>6. Stored(Scanned(k)) \in (0 .. Word - 1) \X (0 .. Word - 1)
    BY <1>4, <1>5 DEF Stored
  <1> QED
    BY <1>4, <1>6
-----------------------------------------------------------------------------
(***************************************************************************)
(* The calls for type information, over InfoStep and the installers.       *)
(***************************************************************************)
Numbers == (0 .. Word - 1) \X (0 .. Word - 1)

CallAnswer == [kind : {"none", "control"}]
              \cup [kind : {"version"}, is : Numbers]
              \cup [kind : {"source"}, is : Nat]

Call == [wants : {"nothing", "classinfo", "guid", "otherguid"}, step : Step,
         index : Nat, best : Numbers, answer : CallAnswer]

CallTyped == InfoTypeOK /\ call \in Call

(* What is known of a call from the step it has come to.                   *)
CallGoesOn ==
    /\ kept \subseteq versions
    /\ call.step = "control" => call.wants # "nothing"
    /\ call.step \in {"control", "libid"} => call.index = 0 /\ call.best = <<0, 0>>
    /\ call.step \in {"libid", "enum", "load"} =>
          /\ call.wants \in {"classinfo", "guid"}
          /\ "classinfo" \notin control.answers
    /\ call.step \in {"enum", "load"} => control.typelib
    /\ call.step = "impls" => call.wants = "guid"

(* Of the first n keys, b is the best that can be used, or none can.       *)
BestRead(b, n) ==
    /\ b = <<0, 0>> \/ b \in RegisteredVersions
    /\ \A p \in Present :
          KeyOrder[p] \in kept /\ SameInBoth(KeyOrder[p]) /\ Cardinality(Preceding(p)) < n =>
              NoOlder(b, Scanned(KeyOrder[p]))

BestKept(b) ==
    /\ b \in RegisteredVersions
    /\ \A k \in kept : SameInBoth(k) => NoOlder(b, Scanned(k))

BestSoFar ==
    ~removed /\ NoneMisread =>
        /\ call.step = "enum" => BestRead(call.best, call.index)
        /\ call.step = "load" => BestKept(call.best)

NoSourceSoFar ==
    call.step = "impls" =>
        /\ call.index <= Len(control.impls)
        /\ \A i \in 1 .. call.index : ~IsDefaultSource(control.impls[i])

InfoInv ==
    /\ CallTyped
    /\ CallGoesOn
    /\ BestSoFar
    /\ NoSourceSoFar
    /\ LatestVersion
    /\ SourceAsDeclared

LEMMA RegisteredTyped ==
    ASSUME versions \subseteq ToSet(KeyOrder)
    PROVE  RegisteredVersions \in SUBSET Numbers
  <1>1. ASSUME NEW k \in versions, Value(16, k.major) < Word, Value(16, k.minor) < Word
        PROVE  <<Value(16, k.major), Value(16, k.minor)>> \in Numbers
    <2>1. PICK a \in Nat : a = Value(16, k.major)
      BY NameTyped
    <2>2. PICK b \in Nat : b = Value(16, k.minor)
      BY NameTyped
    <2>3. a \in 0 .. Word - 1 /\ b \in 0 .. Word - 1
      BY <1>1, <2>1, <2>2, ClassInfoAssumption
    <2> QED
      BY <2>1, <2>2, <2>3 DEF Numbers
  <1> QED
    BY <1>1 DEF RegisteredVersions

(* There is a greatest minor version to load.                              *)
LEMMA LoadedTyped ==
    ASSUME versions \subseteq ToSet(KeyOrder), call.best \in Numbers,
           \E v \in RegisteredVersions : Fits(v)
    PROVE  Loaded \in Numbers
  <1>1. RegisteredVersions \in SUBSET Numbers
    BY RegisteredTyped
  <1>2. PICK S : S = {v[2] : v \in {w \in RegisteredVersions : Fits(w)}}
    OBVIOUS
  <1>3. Word - 1 \in Nat
    BY ClassInfoAssumption
  <1>4. S \in SUBSET (0 .. Word - 1) /\ S # {}
    BY <1>1, <1>2 DEF Numbers
  <1>5. PICK m \in S : \A n \in S : n <= m
    BY <1>3, <1>4, Greatest
  <1>6. PICK v \in RegisteredVersions : Fits(v) /\ v[2] = m
    BY <1>2
  <1>7. ASSUME NEW w \in RegisteredVersions, Fits(w) PROVE ~Later(w, v)
    <2>1. w[1] = v[1]
      BY <1>6, <1>7 DEF Fits
    <2>2. w[2] \in S
      BY <1>2, <1>7
    <2>3. w[2] <= v[2]
      BY <1>5, <1>6, <2>2
    <2>4. w[1] \in Nat /\ w[2] \in Nat /\ v[1] \in Nat /\ v[2] \in Nat
      BY <1>1 DEF Numbers
    <2> QED
      BY <2>1, <2>3, <2>4 DEF Later
  <1>8. \E u \in RegisteredVersions :
            Fits(u) /\ \A w \in RegisteredVersions : Fits(w) => ~Later(w, u)
    BY <1>6, <1>7
  <1>9. PICK l : l = CHOOSE u \in RegisteredVersions :
                        Fits(u) /\ \A w \in RegisteredVersions : Fits(w) => ~Later(w, u)
    OBVIOUS
  <1>10. l \in RegisteredVersions
    BY <1>8, <1>9
  <1>11. Loaded = IF call.best \in RegisteredVersions THEN call.best ELSE l
    BY <1>9 DEF Loaded
  <1> QED
    BY <1>1, <1>10, <1>11

(* The ways a call goes on, field by field.                                *)
LEMMA AnswerGives ==
    ASSUME call \in Call, NEW a \in CallAnswer, Answer(a)
    PROVE  /\ call' \in Call
           /\ call'.step = "answered" /\ call'.answer = a
           /\ call'.wants = call.wants
  BY DEF Answer, Call, Step

LEMMA GoesGives ==
    ASSUME call \in Call, NEW s \in Step, Goes(s)
    PROVE  /\ call' \in Call
           /\ call'.step = s /\ call'.index = call.index
           /\ call'.best = call.best /\ call'.wants = call.wants
  BY DEF Goes, Call

LEMMA AnswersTyped ==
    /\ None \in CallAnswer /\ None.kind = "none"
    /\ ByControl \in CallAnswer /\ ByControl.kind = "control"
    /\ \A v \in Numbers : Version(v) \in CallAnswer /\ Version(v).kind = "version" /\ Version(v).is = v
    /\ \A i \in Nat : Source(i) \in CallAnswer /\ Source(i).kind = "source" /\ Source(i).is = i
  BY DEF None, ByControl, Version, Source, CallAnswer

LEMMA CallsHaveTypes ==
    ASSUME NEW c \in Call
    PROVE  /\ c.wants \in {"nothing", "classinfo", "guid", "otherguid"}
           /\ c.step \in Step /\ c.index \in Nat
           /\ c.best \in (0 .. Word - 1) \X (0 .. Word - 1)
           /\ c.answer.kind \in {"none", "control", "version", "source"}
  BY DEF Call, CallAnswer, Numbers

(* What the two properties ask of an answer.                               *)
AnswersLatest(a) ==
    call.wants = "classinfo" /\ "classinfo" \notin control.answers /\ LibraryThere =>
        /\ a.kind = "version"
        /\ \A k \in Usable : NoOlder(a.is, Scanned(k))

Wanted == {i \in DOMAIN control.impls : IsDefaultSource(control.impls[i])}

AnswersSource(a) ==
    call.wants = "guid" =>
        /\ a.kind = "source" => a.is \in Wanted /\ \A i \in Wanted : a.is <= i
        /\ a.kind = "none" =>
              Wanted = {} \/ ("classinfo" \notin control.answers /\ ~LibraryThere)
        /\ a.kind # "version"

LEMMA WantedIs ==
    ASSUME control \in Control
    PROVE  Wanted = {i \in DOMAIN control.impls :
                        control.impls[i] = [default |-> TRUE, source |-> TRUE,
                                            readable |-> TRUE]}
  <1>1. \A i \in DOMAIN control.impls : control.impls[i] \in ImplType
    BY DEF Control
  <1>2. ASSUME NEW x \in ImplType
        PROVE  IsDefaultSource(x) <=>
                  x = [default |-> TRUE, source |-> TRUE, readable |-> TRUE]
    BY DEF ImplType, IsDefaultSource
  <1> QED
    BY <1>1, <1>2 DEF Wanted

LEMMA AnsweredWell ==
    ASSUME InfoInv, Quiet, NEW a \in CallAnswer, Answer(a),
           AnswersLatest(a), AnswersSource(a)
    PROVE  InfoInv'
  <1>1. /\ call' \in Call
        /\ call'.step = "answered" /\ call'.answer = a /\ call'.wants = call.wants
    BY AnswerGives DEF InfoInv, CallTyped
  <1>2. CallTyped'
    BY <1>1, CallsHaveTypes DEF InfoInv, CallTyped, InfoTypeOK, Quiet
  <1>3. CallGoesOn' /\ BestSoFar' /\ NoSourceSoFar'
    BY <1>1 DEF InfoInv, CallGoesOn, BestSoFar, NoSourceSoFar, Quiet
  <1>4. LatestVersion'
    BY <1>1 DEF LatestVersion, AnswersLatest, Usable, LibraryThere, Quiet,
                NoneMisread
  <1>5. SourceAsDeclared'
    <2>1. Wanted = {i \in DOMAIN control.impls :
                      control.impls[i] = [default |-> TRUE, source |-> TRUE,
                                          readable |-> TRUE]}
      BY WantedIs DEF InfoInv, CallTyped, InfoTypeOK
    <2> QED
      BY <1>1, <2>1 DEF SourceAsDeclared, AnswersSource, LibraryThere, Usable,
                        NoneMisread, Quiet
  <1> QED
    BY <1>2, <1>3, <1>4, <1>5 DEF InfoInv

LEMMA InfoCallKeeps ==
    ASSUME InfoInv, NEW what \in {"classinfo", "guid", "otherguid"}, InfoCall(what)
    PROVE  InfoInv'
  <1>1. /\ call' \in Call
        /\ call'.step = "control" /\ call'.wants = what
        /\ call'.index = 0 /\ call'.best = <<0, 0>>
    <2>1. <<0, 0>> \in Numbers
      BY ClassInfoAssumption DEF Numbers
    <2>2. None \in CallAnswer
      BY AnswersTyped
    <2>3. call' = [wants |-> what, step |-> "control", index |-> 0,
                   best |-> <<0, 0>>, answer |-> None]
      BY DEF InfoCall, NoCall
    <2> QED
      BY <2>1, <2>2, <2>3 DEF Call, Step
  <1>2. CallTyped'
    BY <1>1, CallsHaveTypes DEF InfoInv, CallTyped, InfoTypeOK, InfoCall
  <1>3. CallGoesOn' /\ BestSoFar' /\ NoSourceSoFar'
    BY <1>1 DEF InfoInv, CallGoesOn, BestSoFar, NoSourceSoFar, InfoCall
  <1>4. LatestVersion' /\ SourceAsDeclared'
    BY <1>1 DEF LatestVersion, SourceAsDeclared
  <1> QED
    BY <1>2, <1>3, <1>4 DEF InfoInv

LEMMA AskControlKeeps ==
    ASSUME InfoInv, AskControl
    PROVE  InfoInv'
  <1>0. /\ call \in Call /\ call.step = "control" /\ Quiet
        /\ call.index = 0 /\ call.best = <<0, 0>>
    BY DEF InfoInv, CallTyped, CallGoesOn, AskControl
  <1>1. CASE call.wants \in control.answers
    <2>1. ByControl \in CallAnswer /\ ByControl.kind = "control"
      BY AnswersTyped
    <2>2. AnswersLatest(ByControl) /\ AnswersSource(ByControl)
      BY <1>1, <2>1 DEF AnswersLatest, AnswersSource, LibraryThere
    <2> QED
      BY <1>0, <1>1, <2>1, <2>2, AnsweredWell DEF AskControl
  <1>2. CASE call.wants \notin control.answers /\ call.wants = "otherguid"
    <2>1. None \in CallAnswer
      BY AnswersTyped
    <2>2. AnswersLatest(None) /\ AnswersSource(None)
      BY <1>2 DEF AnswersLatest, AnswersSource, LibraryThere
    <2> QED
      BY <1>0, <1>2, <2>1, <2>2, AnsweredWell DEF AskControl
  <1>3. CASE /\ call.wants \notin control.answers /\ call.wants # "otherguid"
             /\ "classinfo" \in control.answers
    <2>1. /\ call' \in Call
          /\ call'.step = "impls" /\ call'.index = 0 /\ call'.wants = call.wants
      BY <1>0, <1>3, GoesGives DEF AskControl, Step
    <2>2. call.wants = "guid"
      BY <1>0, <1>3, CallsHaveTypes DEF InfoInv, CallGoesOn
    <2>3. CallTyped'
      BY <1>0, <2>1, CallsHaveTypes DEF InfoInv, CallTyped, InfoTypeOK, Quiet
    <2>4. CallGoesOn' /\ BestSoFar'
      BY <1>0, <2>1, <2>2 DEF InfoInv, CallGoesOn, BestSoFar, Quiet
    <2>5. Len(control.impls) \in Nat
      BY DEF InfoInv, CallTyped, InfoTypeOK, Control
    <2>6. NoSourceSoFar'
      BY <1>0, <2>1, <2>5 DEF NoSourceSoFar, Quiet
    <2>7. LatestVersion' /\ SourceAsDeclared'
      BY <2>1 DEF LatestVersion, SourceAsDeclared
    <2> QED
      BY <2>3, <2>4, <2>6, <2>7 DEF InfoInv
  <1>4. CASE /\ call.wants \notin control.answers /\ call.wants # "otherguid"
             /\ "classinfo" \notin control.answers
    <2>1. /\ call' \in Call /\ call'.step = "libid" /\ call'.wants = call.wants
          /\ call'.index = 0 /\ call'.best = <<0, 0>>
      BY <1>0, <1>4, GoesGives DEF AskControl, Step
    <2>2. call.wants \in {"classinfo", "guid"}
      BY <1>0, <1>4, CallsHaveTypes DEF InfoInv, CallGoesOn
    <2>3. CallTyped'
      BY <1>0, <2>1, CallsHaveTypes DEF InfoInv, CallTyped, InfoTypeOK, Quiet
    <2>4. CallGoesOn' /\ BestSoFar' /\ NoSourceSoFar'
      BY <1>0, <1>4, <2>1, <2>2 DEF InfoInv, CallGoesOn, BestSoFar,
                                    NoSourceSoFar, Quiet
    <2>5. LatestVersion' /\ SourceAsDeclared'
      BY <2>1 DEF LatestVersion, SourceAsDeclared
    <2> QED
      BY <2>3, <2>4, <2>5 DEF InfoInv
  <1> QED
    BY <1>1, <1>2, <1>3, <1>4

LEMMA ProperlySmaller ==
    ASSUME NEW S, IsFiniteSet(S), NEW T \in SUBSET S, T # S
    PROVE  /\ IsFiniteSet(T) /\ Cardinality(T) \in Nat /\ Cardinality(S) \in Nat
           /\ Cardinality(T) < Cardinality(S)
  <1>1. /\ IsFiniteSet(T) /\ Cardinality(T) <= Cardinality(S)
        /\ Cardinality(S) = Cardinality(T) => S = T
    BY FS_Subset
  <1>2. PICK m \in Nat : m = Cardinality(S)
    BY FS_CardinalityType
  <1>3. PICK n \in Nat : n = Cardinality(T)
    BY <1>1, FS_CardinalityType
  <1>4. n <= m /\ n # m
    BY <1>1, <1>2, <1>3
  <1>5. n < m
    BY <1>4
  <1> QED
    BY <1>1, <1>2, <1>3, <1>5

LEMMA KeysFinite == IsFiniteSet(DOMAIN KeyOrder)
  <1>1. Len(KeyOrder) \in Nat /\ DOMAIN KeyOrder = 1 .. Len(KeyOrder)
    BY ClassInfoAssumption
  <1>2. PICK n : n = Len(KeyOrder)
    OBVIOUS
  <1>3. n \in Nat /\ 1 \in Int
    BY <1>1, <1>2
  <1>4. IsFiniteSet(1 .. n)
    BY <1>3, FS_Interval
  <1> QED
    BY <1>1, <1>2, <1>4

(* Keys are counted in the order of the registry.                          *)
LEMMA PrecedingCounted ==
    /\ IsFiniteSet(Present) /\ Cardinality(Present) \in Nat
    /\ \A p \in Present :
          /\ IsFiniteSet(Preceding(p)) /\ Cardinality(Preceding(p)) \in Nat
          /\ Cardinality(Preceding(p)) < Cardinality(Present)
    /\ \A p, q \in Present : Cardinality(Preceding(p)) = Cardinality(Preceding(q)) => p = q
  <1>1. Len(KeyOrder) \in Nat /\ DOMAIN KeyOrder = 1 .. Len(KeyOrder)
    BY ClassInfoAssumption
  <1>2. IsFiniteSet(DOMAIN KeyOrder)
    BY KeysFinite
  <1>3. IsFiniteSet(Present) /\ Cardinality(Present) \in Nat
    BY <1>2, FS_Subset, FS_CardinalityType DEF Present
  <1>4. ASSUME NEW p \in Present
        PROVE  /\ IsFiniteSet(Preceding(p)) /\ Cardinality(Preceding(p)) \in Nat
               /\ Cardinality(Preceding(p)) < Cardinality(Present)
    <2>1. Preceding(p) \in SUBSET Present /\ p \notin Preceding(p)
      BY <1>1 DEF Preceding, Present
    <2>2. IsFiniteSet(Preceding(p)) /\ Cardinality(Preceding(p)) \in Nat
      BY <1>3, <2>1, FS_Subset, FS_CardinalityType
    <2>3. Preceding(p) # Present
      BY <2>1
    <2>4. Cardinality(Preceding(p)) < Cardinality(Present)
      BY <1>3, <2>1, <2>3, ProperlySmaller
    <2> QED
      BY <2>2, <2>4
  <1>5. ASSUME NEW p \in Present, NEW q \in Present, p < q
        PROVE  Cardinality(Preceding(p)) # Cardinality(Preceding(q))
    <2>1. Preceding(p) \in SUBSET Preceding(q) /\ p \in Preceding(q) /\ p \notin Preceding(p)
      BY <1>1, <1>5 DEF Preceding, Present
    <2>2. IsFiniteSet(Preceding(q))
      BY <1>4
    <2>3. Cardinality(Preceding(p)) < Cardinality(Preceding(q))
      BY <2>1, <2>2, ProperlySmaller
    <2> QED
      BY <1>4, <2>3
  <1>6. ASSUME NEW p \in Present, NEW q \in Present,
               Cardinality(Preceding(p)) = Cardinality(Preceding(q))
        PROVE  p = q
    <2>1. ~(p < q) /\ ~(q < p)
      BY <1>5, <1>6
    <2>2. p \in Nat /\ q \in Nat
      BY <1>1 DEF Present
    <2> QED
      BY <2>1, <2>2
  <1> QED
    BY <1>3, <1>4, <1>6

LEMMA ReadTypeLibIdKeeps ==
    ASSUME InfoInv, ReadTypeLibId
    PROVE  InfoInv'
  <1>0. /\ call \in Call /\ call.step = "libid" /\ Quiet
        /\ call.index = 0 /\ call.best = <<0, 0>>
        /\ call.wants \in {"classinfo", "guid"} /\ "classinfo" \notin control.answers
    BY DEF InfoInv, CallTyped, CallGoesOn, ReadTypeLibId
  <1>1. CASE ~control.typelib
    <2>1. None \in CallAnswer /\ None.kind = "none"
      BY AnswersTyped
    <2>2. AnswersLatest(None) /\ AnswersSource(None)
      BY <1>0, <1>1, <2>1 DEF AnswersLatest, AnswersSource, LibraryThere
    <2> QED
      BY <1>0, <1>1, <2>1, <2>2, AnsweredWell DEF ReadTypeLibId
  <1>2. CASE control.typelib
    <2>1. /\ call' \in Call
          /\ call'.step = "enum" /\ call'.wants = call.wants
          /\ call'.index = 0 /\ call'.best = <<0, 0>>
      BY <1>0, <1>2, GoesGives DEF ReadTypeLibId, Step
    <2>2. CallTyped'
      BY <1>0, <2>1, CallsHaveTypes DEF InfoInv, CallTyped, InfoTypeOK, Quiet
    <2>3. CallGoesOn' /\ NoSourceSoFar'
      BY <1>0, <1>2, <2>1 DEF InfoInv, CallGoesOn, NoSourceSoFar, Quiet
    <2>4. BestRead(<<0, 0>>, 0)
      BY PrecedingCounted DEF BestRead
    <2>5. BestSoFar'
      BY <1>0, <2>1, <2>4
      DEF BestSoFar, BestRead, Present, Preceding, RegisteredVersions, Quiet
    <2>6. LatestVersion' /\ SourceAsDeclared'
      BY <2>1 DEF LatestVersion, SourceAsDeclared
    <2> QED
      BY <2>2, <2>3, <2>5, <2>6 DEF InfoInv
  <1> QED
    BY <1>1, <1>2

(* A key whose name is not misread stands for the version that is read.    *)
LEMMA ReadAsRegistered ==
    ASSUME versions \subseteq ToSet(KeyOrder), NEW k \in versions, SameInBoth(k)
    PROVE  /\ Scanned(k) \in RegisteredVersions
           /\ Stored(Scanned(k)) = Scanned(k)
  <1>1. PICK v : v = Scanned(k)
    OBVIOUS
  <1>2. v \in Nat \X Nat /\ Stored(v) = v /\ v = <<Value(16, k.major), Value(16, k.minor)>>
    BY <1>1, ScannedTyped DEF SameInBoth
  <1>3. \A n \in Nat : n % Word < Word
    BY ClassInfoAssumption
  <1>4. v[1] < Word /\ v[2] < Word
    BY <1>2, <1>3 DEF Stored
  <1>5. Value(16, k.major) < Word /\ Value(16, k.minor) < Word
    BY <1>2, <1>4
  <1>6. v \in RegisteredVersions
    BY <1>2, <1>5 DEF RegisteredVersions
  <1> QED
    BY <1>1, <1>2, <1>6

(* The version kept after one more key is the best so far.                 *)
LEMMA OneMoreKey ==
    ASSUME versions \subseteq ToSet(KeyOrder), NoneMisread,
           NEW b \in Numbers, NEW n \in Nat, BestRead(b, n),
           NEW p \in Present, Cardinality(Preceding(p)) = n,
           NEW c, c = IF Readable(KeyOrder[p]) /\ Later(Scanned(KeyOrder[p]), b)
                      THEN Stored(Scanned(KeyOrder[p])) ELSE b
    PROVE  BestRead(c, n + 1)
  <1>1. PICK k : k = KeyOrder[p]
    OBVIOUS
  <1>2. k \in versions /\ k \in ToSet(KeyOrder)
    BY <1>1 DEF Present
  <1>3. PICK v \in Nat \X Nat : v = Scanned(k)
    BY <1>2, ScannedTyped
  <1>4. b[1] \in Nat /\ b[2] \in Nat /\ v[1] \in Nat /\ v[2] \in Nat
    BY DEF Numbers
  <1>5. CASE Readable(k) /\ Later(v, b)
    <2>1. SameInBoth(k)
      BY <1>2, <1>5 DEF NoneMisread
    <2>2. c = v /\ c \in RegisteredVersions
      BY <1>1, <1>2, <1>3, <1>5, <2>1, ReadAsRegistered
    <2>3. ASSUME NEW q \in Present, KeyOrder[q] \in kept, SameInBoth(KeyOrder[q]),
                 Cardinality(Preceding(q)) < n + 1
          PROVE  NoOlder(c, Scanned(KeyOrder[q]))
      <3>1. CASE q = p
        BY <1>1, <1>3, <1>4, <2>2, <3>1 DEF NoOlder
      <3>2. CASE q # p
        <4>1. Cardinality(Preceding(q)) < n
          <5>1. PICK m \in Nat : m = Cardinality(Preceding(q))
            BY PrecedingCounted
          <5>2. m # n
            BY <3>2, <5>1, PrecedingCounted
          <5>3. m < n
            BY <2>3, <5>1, <5>2
          <5> QED
            BY <5>1, <5>3
        <4>2. PICK u \in Nat \X Nat : u = Scanned(KeyOrder[q])
          <5>1. KeyOrder[q] \in ToSet(KeyOrder)
            BY DEF Present
          <5> QED
            BY <5>1, ScannedTyped
        <4>3. NoOlder(b, u)
          BY <2>3, <4>1, <4>2 DEF BestRead
        <4>4. u[1] \in Nat /\ u[2] \in Nat
          OBVIOUS
        <4>5. NoOlder(v, u)
          BY <1>4, <1>5, <4>3, <4>4 DEF NoOlder, Later
        <4> QED
          BY <2>2, <4>2, <4>5
      <3> QED
        BY <3>1, <3>2
    <2> QED
      BY <2>2, <2>3 DEF BestRead
  <1>6. CASE ~(Readable(k) /\ Later(v, b))
    <2>1. c = b
      BY <1>1, <1>3, <1>6
    <2>2. ASSUME NEW q \in Present, KeyOrder[q] \in kept, SameInBoth(KeyOrder[q]),
                 Cardinality(Preceding(q)) < n + 1
          PROVE  NoOlder(c, Scanned(KeyOrder[q]))
      <3>1. CASE q = p
        <4>1. ~Later(v, b)
          BY <1>1, <1>6, <2>2, <3>1 DEF SameInBoth
        <4>2. NoOlder(b, v)
          BY <1>4, <4>1 DEF NoOlder, Later
        <4> QED
          BY <1>1, <1>3, <2>1, <3>1, <4>2
      <3>2. CASE q # p
        <4>1. Cardinality(Preceding(q)) < n
          <5>1. PICK m \in Nat : m = Cardinality(Preceding(q))
            BY PrecedingCounted
          <5>2. m # n
            BY <3>2, <5>1, PrecedingCounted
          <5>3. m < n
            BY <2>2, <5>1, <5>2
          <5> QED
            BY <5>1, <5>3
        <4> QED
          BY <2>1, <2>2, <4>1 DEF BestRead
      <3> QED
        BY <3>1, <3>2
    <2> QED
      BY <2>1, <2>2 DEF BestRead
  <1> QED
    BY <1>5, <1>6

LEMMA NextKeyKeeps ==
    ASSUME InfoInv, NextKey
    PROVE  InfoInv'
  <1>0. /\ call \in Call /\ call.step = "enum" /\ Quiet
        /\ versions \subseteq ToSet(KeyOrder)
        /\ call.index \in Nat /\ call.best \in Numbers
    BY CallsHaveTypes DEF InfoInv, CallTyped, InfoTypeOK, NextKey, Numbers
  <1>1. PICK p \in Present :
          /\ Cardinality(Preceding(p)) = call.index
          /\ call' = [call EXCEPT
                        !.index = @ + 1,
                        !.best = IF Readable(KeyOrder[p]) /\ Later(Scanned(KeyOrder[p]), @)
                                 THEN Stored(Scanned(KeyOrder[p])) ELSE @]
    BY DEF NextKey
  <1>2. PICK c : c = IF Readable(KeyOrder[p]) /\ Later(Scanned(KeyOrder[p]), call.best)
                     THEN Stored(Scanned(KeyOrder[p])) ELSE call.best
    OBVIOUS
  <1>3. PICK n \in Nat : n = call.index
    BY <1>0
  <1>4. c \in Numbers
    <2>1. KeyOrder[p] \in ToSet(KeyOrder)
      BY <1>0 DEF Present
    <2>2. Stored(Scanned(KeyOrder[p])) \in Numbers
      BY <2>1, ScannedTyped DEF Numbers
    <2> QED
      BY <1>0, <1>2, <2>2
  <1>5. call' = [call EXCEPT !.index = n + 1, !.best = c]
    BY <1>1, <1>2, <1>3
  <1>6. n + 1 \in Nat
    OBVIOUS
  <1>7. /\ call' \in Call
        /\ call'.step = "enum" /\ call'.wants = call.wants
        /\ call'.index = n + 1 /\ call'.best = c
    BY <1>0, <1>4, <1>5, <1>6 DEF Call
  <1>8. CallTyped'
    BY <1>0, <1>7, CallsHaveTypes DEF InfoInv, CallTyped, InfoTypeOK, Quiet
  <1>9. CallGoesOn' /\ NoSourceSoFar'
    BY <1>0, <1>7 DEF InfoInv, CallGoesOn, NoSourceSoFar, Quiet
  <1>10. ~removed /\ NoneMisread => BestRead(c, n + 1)
    BY <1>0, <1>1, <1>2, <1>3, OneMoreKey DEF InfoInv, BestSoFar
  <1>11. BestSoFar'
    BY <1>0, <1>7, <1>10
    DEF BestSoFar, BestRead, Present, Preceding, RegisteredVersions,
        NoneMisread, Quiet
  <1>12. LatestVersion' /\ SourceAsDeclared'
    BY <1>7 DEF LatestVersion, SourceAsDeclared
  <1> QED
    BY <1>8, <1>9, <1>11, <1>12 DEF InfoInv

LEMMA LastKeyKeeps ==
    ASSUME InfoInv, LastKey
    PROVE  InfoInv'
  <1>0. /\ call \in Call /\ call.step = "enum" /\ Quiet
        /\ versions \subseteq ToSet(KeyOrder) /\ kept \subseteq versions
        /\ call.index \in Nat /\ call.index >= Cardinality(Present)
        /\ "classinfo" \notin control.answers
    BY CallsHaveTypes DEF InfoInv, CallTyped, CallGoesOn, InfoTypeOK, LastKey
  <1>1. ASSUME ~removed, NoneMisread, NEW k \in kept, SameInBoth(k)
        PROVE  NoOlder(call.best, Scanned(k))
    <2>1. PICK p \in Present : KeyOrder[p] = k
      BY <1>0 DEF Present, ToSet
    <2>2. PICK m \in Nat : m = Cardinality(Preceding(p))
      BY PrecedingCounted
    <2>3. PICK l \in Nat : l = Cardinality(Present)
      BY PrecedingCounted
    <2>4. m < l
      BY <2>2, <2>3, PrecedingCounted
    <2>5. m < call.index
      BY <1>0, <2>3, <2>4
    <2>6. BestRead(call.best, call.index)
      BY <1>0, <1>1 DEF InfoInv, BestSoFar
    <2> QED
      BY <1>1, <2>1, <2>2, <2>5, <2>6 DEF BestRead
  <1>2. CASE call.best = <<0, 0>>
    <2>1. None \in CallAnswer /\ None.kind = "none"
      BY AnswersTyped
    <2>2. ~removed /\ NoneMisread => Usable = {}
      <3>1. ASSUME ~removed, NoneMisread, NEW k \in kept, SameInBoth(k)
            PROVE  Scanned(k) = <<0, 0>>
        <4>1. PICK v \in Nat \X Nat : v = Scanned(k)
          BY <1>0, ScannedTyped
        <4>2. NoOlder(<<0, 0>>, v)
          BY <1>1, <1>2, <3>1, <4>1
        <4>3. v[1] = 0 /\ v[2] = 0
          BY <4>2 DEF NoOlder
        <4> QED
          BY <4>1, <4>3
      <3> QED
        BY <3>1 DEF Usable
    <2>3. AnswersLatest(None) /\ AnswersSource(None)
      BY <1>0, <2>1, <2>2 DEF AnswersLatest, AnswersSource, LibraryThere
    <2> QED
      BY <1>0, <1>2, <2>1, <2>3, AnsweredWell DEF LastKey
  <1>3. CASE call.best # <<0, 0>>
    <2>1. /\ call' \in Call
          /\ call'.step = "load" /\ call'.wants = call.wants
          /\ call'.best = call.best
      BY <1>0, <1>3, GoesGives DEF LastKey, Step
    <2>2. CallTyped'
      BY <1>0, <2>1, CallsHaveTypes DEF InfoInv, CallTyped, InfoTypeOK, Quiet
    <2>3. CallGoesOn' /\ NoSourceSoFar'
      BY <1>0, <2>1 DEF InfoInv, CallGoesOn, NoSourceSoFar, Quiet
    <2>4. ~removed /\ NoneMisread => BestKept(call.best)
      BY <1>0, <1>1, <1>3 DEF InfoInv, BestSoFar, BestRead, BestKept
    <2>5. BestSoFar'
      BY <1>0, <2>1, <2>4
      DEF BestSoFar, BestKept, RegisteredVersions, NoneMisread, Quiet
    <2>6. LatestVersion' /\ SourceAsDeclared'
      BY <2>1 DEF LatestVersion, SourceAsDeclared
    <2> QED
      BY <2>2, <2>3, <2>5, <2>6 DEF InfoInv
  <1> QED
    BY <1>2, <1>3

LEMMA LoadRegTypeLibKeeps ==
    ASSUME InfoInv, LoadRegTypeLib
    PROVE  InfoInv'
  <1>0. /\ call \in Call /\ call.step = "load" /\ Quiet
        /\ versions \subseteq ToSet(KeyOrder)
        /\ call.best \in Numbers
        /\ call.wants \in {"classinfo", "guid"} /\ "classinfo" \notin control.answers
    BY CallsHaveTypes
    DEF InfoInv, CallTyped, CallGoesOn, InfoTypeOK, LoadRegTypeLib, Numbers
  <1>1. ~removed /\ NoneMisread => BestKept(call.best)
    BY <1>0 DEF InfoInv, BestSoFar
  <1>2. CASE ~control.described \/ ~\E v \in RegisteredVersions : Fits(v)
    <2>1. None \in CallAnswer /\ None.kind = "none"
      BY AnswersTyped
    <2>2. ~removed /\ NoneMisread => \E v \in RegisteredVersions : Fits(v)
      <3>1. Fits(call.best)
        <4>1. call.best[2] \in Nat
          BY <1>0 DEF Numbers
        <4> QED
          BY <4>1 DEF Fits
      <3> QED
        BY <1>1, <3>1 DEF BestKept
    <2>3. AnswersLatest(None) /\ AnswersSource(None)
      BY <1>0, <1>2, <2>1, <2>2 DEF AnswersLatest, AnswersSource, LibraryThere
    <2> QED
      BY <1>0, <1>2, <2>1, <2>3, AnsweredWell DEF LoadRegTypeLib
  <1>3. CASE control.described /\ \E v \in RegisteredVersions : Fits(v)
    <2>0. PICK b : b = Loaded
      OBVIOUS
    <2>1. b \in Numbers
      BY <1>0, <1>3, <2>0, LoadedTyped
    <2>2. CASE call.wants = "classinfo"
      <3>1. Version(b) \in CallAnswer /\ Version(b).kind = "version" /\ Version(b).is = b
        BY <2>1, AnswersTyped
      <3>2. ~removed /\ NoneMisread => b = call.best
        BY <1>1, <2>0 DEF BestKept, Loaded
      <3>3. AnswersSource(Version(b))
        BY <2>2 DEF AnswersSource
      <3>4. AnswersLatest(Version(b))
        BY <1>1, <3>1, <3>2 DEF AnswersLatest, BestKept, Usable, LibraryThere
      <3> QED
        BY <1>0, <1>3, <2>0, <2>2, <3>1, <3>3, <3>4, AnsweredWell
           DEF LoadRegTypeLib
    <2>3. CASE call.wants = "guid"
      <3>1. call' = [call EXCEPT !.step = "impls", !.index = 0, !.best = b]
        BY <1>3, <2>0, <2>3 DEF LoadRegTypeLib
      <3>2. /\ call' \in Call
            /\ call'.step = "impls" /\ call'.wants = "guid" /\ call'.index = 0
        BY <1>0, <2>1, <2>3, <3>1 DEF Call, Step
      <3>3. CallTyped'
        BY <1>0, <3>2, CallsHaveTypes DEF InfoInv, CallTyped, InfoTypeOK, Quiet
      <3>4. CallGoesOn' /\ BestSoFar'
        BY <1>0, <3>2 DEF InfoInv, CallGoesOn, BestSoFar, Quiet
      <3>5. Len(control.impls) \in Nat
        BY DEF InfoInv, CallTyped, InfoTypeOK, Control
      <3>6. NoSourceSoFar'
        BY <1>0, <3>2, <3>5 DEF NoSourceSoFar, Quiet
      <3>7. LatestVersion' /\ SourceAsDeclared'
        BY <3>2 DEF LatestVersion, SourceAsDeclared
      <3> QED
        BY <3>3, <3>4, <3>6, <3>7 DEF InfoInv
    <2> QED
      BY <1>0, <2>2, <2>3
  <1> QED
    BY <1>2, <1>3

LEMMA NextImplTypeKeeps ==
    ASSUME InfoInv, NextImplType
    PROVE  InfoInv'
  <1>0. /\ call \in Call /\ call.step = "impls" /\ Quiet /\ call.wants = "guid"
        /\ control.impls \in Seq(ImplType) /\ Len(control.impls) \in Nat
    BY DEF InfoInv, CallTyped, CallGoesOn, InfoTypeOK, NextImplType, Control
  <1>1. PICK n \in Nat : n = call.index
    BY <1>0, CallsHaveTypes
  <1>2. n <= Len(control.impls) /\ \A i \in 1 .. n : ~IsDefaultSource(control.impls[i])
    BY <1>0, <1>1 DEF InfoInv, NoSourceSoFar
  <1>3. DOMAIN control.impls = 1 .. Len(control.impls)
    BY <1>0
  <1>4. CASE n + 1 > Len(control.impls)
    <2>1. None \in CallAnswer /\ None.kind = "none"
      BY AnswersTyped
    <2>2. Wanted = {}
      <3>1. n = Len(control.impls)
        BY <1>0, <1>2, <1>4
      <3> QED
        BY <1>2, <1>3, <3>1 DEF Wanted
    <2>3. AnswersLatest(None) /\ AnswersSource(None)
      BY <1>0, <2>1, <2>2 DEF AnswersLatest, AnswersSource, LibraryThere
    <2> QED
      BY <1>0, <1>1, <1>4, <2>1, <2>3, AnsweredWell DEF NextImplType
  <1>5. CASE n + 1 <= Len(control.impls) /\ IsDefaultSource(control.impls[n + 1])
    <2>1. /\ Source(n + 1) \in CallAnswer
          /\ Source(n + 1).kind = "source" /\ Source(n + 1).is = n + 1
      <3>1. n + 1 \in Nat
        OBVIOUS
      <3> QED
        BY <3>1, AnswersTyped
    <2>2. n + 1 \in Wanted /\ \A i \in Wanted : n + 1 <= i
      <3>1. n + 1 \in Wanted
        BY <1>0, <1>3, <1>5 DEF Wanted
      <3>2. \A i \in Wanted : n + 1 <= i
        <4> TAKE i \in Wanted
        <4>1. i \in 1 .. Len(control.impls) /\ i \notin 1 .. n
          BY <1>2, <1>3 DEF Wanted
        <4> QED
          BY <1>0, <4>1
      <3> QED
        BY <3>1, <3>2
    <2>3. AnswersLatest(Source(n + 1)) /\ AnswersSource(Source(n + 1))
      BY <1>0, <2>1, <2>2 DEF AnswersLatest, AnswersSource, LibraryThere
    <2>4. Answer(Source(n + 1))
      <3>1. ~(n + 1 > Len(control.impls))
        BY <1>0, <1>5
      <3> QED
        BY <1>1, <1>5, <3>1 DEF NextImplType
    <2> QED
      BY <1>0, <2>1, <2>3, <2>4, AnsweredWell
  <1>6. CASE n + 1 <= Len(control.impls) /\ ~IsDefaultSource(control.impls[n + 1])
    <2>1. call' = [call EXCEPT !.index = n + 1]
      <3>1. ~(n + 1 > Len(control.impls))
        BY <1>0, <1>6
      <3> QED
        BY <1>1, <1>6, <3>1 DEF NextImplType
    <2>2. /\ call' \in Call
          /\ call'.step = "impls" /\ call'.wants = "guid" /\ call'.index = n + 1
      BY <1>0, <2>1 DEF Call
    <2>3. CallTyped'
      BY <1>0, <2>2, CallsHaveTypes DEF InfoInv, CallTyped, InfoTypeOK, Quiet
    <2>4. CallGoesOn' /\ BestSoFar'
      BY <1>0, <2>2 DEF InfoInv, CallGoesOn, BestSoFar, Quiet
    <2>5. \A i \in 1 .. n + 1 : ~IsDefaultSource(control.impls[i])
      <3> TAKE i \in 1 .. n + 1
      <3>1. i \in 1 .. n \/ i = n + 1
        OBVIOUS
      <3> QED
        BY <1>2, <1>6, <3>1
    <2>6. NoSourceSoFar'
      BY <1>0, <1>6, <2>2, <2>5 DEF NoSourceSoFar, Quiet
    <2>7. LatestVersion' /\ SourceAsDeclared'
      BY <2>2 DEF LatestVersion, SourceAsDeclared
    <2> QED
      BY <2>3, <2>4, <2>6, <2>7 DEF InfoInv
  <1> QED
    BY <1>0, <1>4, <1>5, <1>6

(* A key that is added can only put others further back.                   *)
PrecedingIn(V, p) == {q \in {r \in DOMAIN KeyOrder : KeyOrder[r] \in V} : q < p}

LEMMA CountsGrow ==
    ASSUME NEW W, NEW V \in SUBSET W, NEW p
    PROVE  /\ Cardinality(PrecedingIn(V, p)) \in Nat /\ Cardinality(PrecedingIn(W, p)) \in Nat
           /\ Cardinality(PrecedingIn(V, p)) <= Cardinality(PrecedingIn(W, p))
  <1>1. PrecedingIn(W, p) \in SUBSET DOMAIN KeyOrder
    BY DEF PrecedingIn
  <1>2. IsFiniteSet(PrecedingIn(W, p)) /\ Cardinality(PrecedingIn(W, p)) \in Nat
    BY <1>1, KeysFinite, FS_Subset, FS_CardinalityType
  <1>3. PrecedingIn(V, p) \in SUBSET PrecedingIn(W, p)
    BY DEF PrecedingIn
  <1> QED
    BY <1>2, <1>3, FS_Subset, FS_CardinalityType

LEMMA InstallKeeps ==
    ASSUME InfoInv, NEW k \in ToSet(KeyOrder), Install(k)
    PROVE  InfoInv'
  <1>0. /\ call \in Call /\ call.step \in {"libid", "enum", "load"}
        /\ kept \subseteq versions /\ versions \subseteq versions'
        /\ call.index \in Nat
    BY CallsHaveTypes DEF InfoInv, CallTyped, CallGoesOn, Install, Looking
  <1>1. CallTyped'
    BY <1>0, CallsHaveTypes DEF InfoInv, CallTyped, InfoTypeOK, Install
  <1>2. CallGoesOn' /\ NoSourceSoFar'
    BY <1>0 DEF InfoInv, CallGoesOn, NoSourceSoFar, Install
  <1>3. ~removed' /\ NoneMisread' => ~removed /\ NoneMisread
    BY <1>0 DEF NoneMisread, Install
  <1>4. RegisteredVersions \subseteq RegisteredVersions'
    BY <1>0 DEF RegisteredVersions
  <1>5. ASSUME BestRead(call.best, call.index), NEW p \in Present', KeyOrder[p] \in kept,
               SameInBoth(KeyOrder[p]), Cardinality(Preceding(p)') < call.index
        PROVE  NoOlder(call.best, Scanned(KeyOrder[p]))
    <2>1. p \in Present
      BY <1>0, <1>5 DEF Present
    <2>2. Preceding(p) = PrecedingIn(versions, p)
      BY DEF Preceding, Present, PrecedingIn
    <2>3. Preceding(p)' = PrecedingIn(versions', p)
      BY DEF Preceding, Present, PrecedingIn
    <2>4. PICK m : m = Cardinality(Preceding(p))
      OBVIOUS
    <2>5. PICK n : n = Cardinality(Preceding(p)')
      OBVIOUS
    <2>6. m \in Nat /\ n \in Nat /\ m <= n
      BY <1>0, <2>2, <2>3, <2>4, <2>5, CountsGrow
    <2>7. m < call.index
      BY <1>0, <1>5, <2>5, <2>6
    <2> QED
      BY <1>5, <2>1, <2>4, <2>7 DEF BestRead
  <1>6. BestRead(call.best, call.index) => BestRead(call.best, call.index)'
    BY <1>4, <1>5 DEF BestRead, Install
  <1>7. BestKept(call.best) => BestKept(call.best)'
    BY <1>4 DEF BestKept, Install
  <1>8. BestSoFar'
    BY <1>3, <1>6, <1>7 DEF InfoInv, BestSoFar, Install
  <1>9. LatestVersion' /\ SourceAsDeclared'
    BY <1>0 DEF LatestVersion, SourceAsDeclared, Install
  <1> QED
    BY <1>1, <1>2, <1>8, <1>9 DEF InfoInv

LEMMA UninstallKeeps ==
    ASSUME InfoInv, NEW k \in ToSet(KeyOrder), Uninstall(k)
    PROVE  InfoInv'
  <1>0. /\ call \in Call /\ call.step \in {"libid", "enum", "load"}
        /\ kept' \subseteq versions' /\ removed' = TRUE
        /\ versions' \subseteq versions /\ kept' \subseteq kept
    BY DEF InfoInv, CallTyped, CallGoesOn, Uninstall, Looking
  <1>1. CallTyped'
    BY <1>0, CallsHaveTypes DEF InfoInv, CallTyped, InfoTypeOK, Uninstall
  <1>2. CallGoesOn' /\ NoSourceSoFar' /\ BestSoFar'
    BY <1>0 DEF InfoInv, CallGoesOn, NoSourceSoFar, BestSoFar, Uninstall
  <1>3. LatestVersion' /\ SourceAsDeclared'
    BY <1>0 DEF LatestVersion, SourceAsDeclared, Uninstall
  <1> QED
    BY <1>1, <1>2, <1>3 DEF InfoInv

LEMMA InfoUnchanged ==
    ASSUME InfoInv, UNCHANGED infoVars
    PROVE  InfoInv'
  BY DEF InfoInv, infoVars, CallTyped, InfoTypeOK, CallGoesOn, BestSoFar,
         BestRead, BestKept, NoneMisread, Present, Preceding,
         RegisteredVersions, NoSourceSoFar, LatestVersion, SourceAsDeclared,
         LibraryThere, Usable

(* The three parts of the process keep to themselves.                      *)
THEOREM CallsInductive == Spec => []InfoInv
  <1>1. Init => InfoInv
    <2> SUFFICES ASSUME Init PROVE InfoInv
      OBVIOUS
    <2>1. control \in Control
      BY InputsAssumption, ClassInfoAssumption DEF Init
    <2>2. call = NoCall /\ versions = control.versions /\ kept = {} /\ removed = FALSE
      BY DEF Init, InfoInit
    <2>3. /\ call \in Call /\ call.step = "idle"
      <3>1. <<0, 0>> \in Numbers
        BY ClassInfoAssumption DEF Numbers
      <3>2. None \in CallAnswer
        BY AnswersTyped
      <3> QED
        BY <2>2, <3>1, <3>2 DEF NoCall, Call, Step
    <2>4. CallTyped
      BY <2>1, <2>2, <2>3, CallsHaveTypes DEF CallTyped, InfoTypeOK, Control
    <2> QED
      BY <2>2, <2>3, <2>4
      DEF InfoInv, CallGoesOn, BestSoFar, NoSourceSoFar, LatestVersion,
          SourceAsDeclared
  <1>2. ASSUME InfoInv, [Next]_vars PROVE InfoInv'
    <2>1. CASE Answers
      <3>1. ASSUME NEW what \in {"classinfo", "guid", "otherguid"}, InfoCall(what)
            PROVE  InfoInv'
        BY <1>2, <3>1, InfoCallKeeps
      <3>2. ASSUME InfoStep PROVE InfoInv'
        BY <1>2, <3>2, AskControlKeeps, ReadTypeLibIdKeeps, NextKeyKeeps, LastKeyKeeps,
           LoadRegTypeLibKeeps, NextImplTypeKeeps DEF InfoStep
      <3>3. ASSUME NEW k \in ToSet(KeyOrder), Install(k) \/ Uninstall(k) PROVE InfoInv'
        BY <1>2, <3>3, InstallKeeps, UninstallKeeps
      <3> QED
        BY <2>1, <3>1, <3>2, <3>3 DEF Answers
    <2>2. CASE UNCHANGED infoVars
      BY <1>2, <2>2, InfoUnchanged
    <2> QED
      BY <1>2, <2>1, <2>2 DEF Next, Starts, WritesLine, GoesOn, vars
  <1> QED
    BY <1>1, <1>2, PTL DEF Spec

(* GetClassInfo answers with a version no older than any registered during *)
(* the whole call under a name that is read, unless one was removed or a   *)
(* name is read as another number.                                         *)
THEOREM FindsTheLatest == Spec => []LatestVersion
  <1>1. InfoInv => LatestVersion
    BY DEF InfoInv
  <1> QED
    BY <1>1, CallsInductive, PTL

(* GetGUID answers with the default source interface as it is declared,    *)
(* and with one if there is one whose type information can be had.         *)
THEOREM FindsTheSource == Spec => []SourceAsDeclared
  <1>1. InfoInv => SourceAsDeclared
    BY DEF InfoInv
  <1> QED
    BY <1>1, CallsInductive, PTL

(* The variables of the process keep their types: in particular a version  *)
(* is kept in sixteen bits.                                                *)
THEOREM ProcessIsTyped == Spec => []TypeOK
  <1>1. InfoInv => InfoTypeOK
    BY DEF InfoInv, CallTyped
  <1>2. StartupInv => StartupTypeOK
    BY DEF StartupInv
  <1>3. Inv => TextTypeOK
    BY DEF Inv
  <1>4. StartupTypeOK /\ TextTypeOK /\ InfoTypeOK => TypeOK
    BY DEF TypeOK
  <1> QED
    BY <1>1, <1>2, <1>3, <1>4, CallsInductive, StartupInductive, LineInductive, PTL
=============================================================================
