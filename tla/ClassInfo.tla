------------------------------ MODULE ClassInfo ------------------------------
(***************************************************************************)
(* HostProvideClassInfo (provide_class_info.cc): the type information of   *)
(* the hosted class.  The control itself is asked first; otherwise the     *)
(* latest registered version of the class's type library is looked for,    *)
(* one key of the registry at a time, while installers add and remove      *)
(* versions; GetGUID then looks for the default source interface.          *)
(*                                                                         *)
(* External: the registry, LoadRegTypeLib and the type information.        *)
(***************************************************************************)
EXTENDS Integers, Sequences, FiniteSets, SequencesExt

CONSTANTS
    KeyOrder,   \* names of version keys, in the order of the registry
    Controls,   \* what is installed for the class: see Control
    Word        \* the number of values of a USHORT

(* A key name "major.minor" is two sequences of hexadecimal digits.        *)
Name == [major : Seq(0 .. 15), minor : Seq(0 .. 15)]

ImplType == [default : BOOLEAN, source : BOOLEAN, readable : BOOLEAN]

Control == [answers : SUBSET {"classinfo", "guid", "otherguid"}, \* by itself
            typelib : BOOLEAN,                      \* CLSID\..\TypeLib is there
            changes : BOOLEAN,                      \* while it is looked up
            versions : SUBSET ToSet(KeyOrder),      \* registered at first
            described : BOOLEAN,                    \* the class is in the library
            impls   : Seq(ImplType)]                \* interfaces of the coclass

ASSUME ClassInfoAssumption ==
    /\ KeyOrder \in Seq(Name)
    /\ Controls \subseteq Control
    /\ Word \in Nat \ {0}

VARIABLES
    control,    \* what is installed
    versions,   \* the keys below TypeLib\{libid}
    call,       \* the call in progress
    kept,       \* ghost: versions present ever since the call began
    removed     \* ghost: a version was removed during the call

infoVars == <<control, versions, call, kept, removed>>

None == [kind |-> "none"]
ByControl == [kind |-> "control"]
Version(v) == [kind |-> "version", is |-> v]
Source(i) == [kind |-> "source", is |-> i]

NoCall == [wants |-> "nothing", step |-> "idle", index |-> 0,
           best |-> <<0, 0>>, answer |-> None]

(***************************************************************************)
(* The name of a key is hexadecimal.  swscanf_s reads it as decimal: the   *)
(* major number must run up to the point, the minor ends where its decimal *)
(* digits do.  Both are compared as read, and stored in 16 bits.           *)
(***************************************************************************)
Value(base, digits) == FoldLeft(LAMBDA v, d : v * base + d, 0, digits)

IsDecimal(digits) == digits # <<>> /\ \A i \in DOMAIN digits : digits[i] <= 9

DecimalPart(digits) ==
    LET IsEnd(n) == \A i \in 1 .. n : digits[i] <= 9
    IN SubSeq(digits, 1, CHOOSE n \in 0 .. Len(digits) :
                            /\ IsEnd(n)
                            /\ n = Len(digits) \/ ~IsEnd(n + 1))

Readable(name) == IsDecimal(name.major) /\ DecimalPart(name.minor) # <<>>

Scanned(name) == <<Value(10, name.major), Value(10, DecimalPart(name.minor))>>

(* Mutant: the two numbers are compared one by one.                        *)
LaterEither(v, w) == v[1] > w[1] \/ v[2] > w[2]

Later(v, w) == v[1] > w[1] \/ (v[1] = w[1] /\ v[2] > w[2])

(* Mutant: the numbers are kept as read.                                   *)
StoredWhole(v) == v

Stored(v) == <<v[1] % Word, v[2] % Word>>

(* What a key stands for: the version, if both numbers fit.                *)
RegisteredVersions ==
    {<<Value(16, k.major), Value(16, k.minor)>> :
        k \in {n \in versions : Value(16, n.major) < Word /\ Value(16, n.minor) < Word}}

(* RegEnumKeyEx counts the keys that are there at the time of the call.    *)
Present == {p \in DOMAIN KeyOrder : KeyOrder[p] \in versions}

Preceding(p) == {q \in Present : q < p}

-----------------------------------------------------------------------------
InfoCall(what) ==
    /\ call.step \in {"idle", "answered"}
    /\ call' = [NoCall EXCEPT !.wants = what, !.step = "control"]
    /\ kept' = versions
    /\ removed' = FALSE
    /\ UNCHANGED <<control, versions>>

Answer(a) == call' = [call EXCEPT !.step = "answered", !.answer = a]

Goes(step) == call' = [call EXCEPT !.step = step]

Quiet == UNCHANGED <<control, versions, kept, removed>>

(* GetGUID asks the control for the GUID, then, for the one kind it knows, *)
(* for the type information, as GetClassInfo does.                         *)
AskControl ==
    /\ call.step = "control"
    /\ IF call.wants \in control.answers THEN Answer(ByControl)
       ELSE IF call.wants = "otherguid" THEN Answer(None)
       ELSE IF "classinfo" \in control.answers THEN Goes("impls")
       ELSE Goes("libid")
    /\ Quiet

ReadTypeLibId ==
    /\ call.step = "libid"
    /\ IF control.typelib THEN Goes("enum") ELSE Answer(None)
    /\ Quiet

NextKey ==
    /\ call.step = "enum"
    /\ \E p \in Present :
          /\ Cardinality(Preceding(p)) = call.index
          /\ LET name == KeyOrder[p]
             IN call' = [call EXCEPT
                    !.index = @ + 1,
                    !.best = IF Readable(name) /\ Later(Scanned(name), @)
                             THEN Stored(Scanned(name)) ELSE @]
    /\ Quiet

LastKey ==
    /\ call.step = "enum"
    /\ call.index >= Cardinality(Present)
    /\ IF call.best = <<0, 0>> THEN Answer(None) ELSE Goes("load")
    /\ Quiet

(* LoadRegTypeLib takes the version asked for, or the greatest minor above *)
(* it with the same major; GetTypeInfoOfGuid then finds the class in it.   *)
Fits(v) == v[1] = call.best[1] /\ v[2] >= call.best[2]

Loaded ==
    IF call.best \in RegisteredVersions THEN call.best
    ELSE CHOOSE v \in RegisteredVersions :
            Fits(v) /\ \A w \in RegisteredVersions : Fits(w) => ~Later(w, v)

LoadRegTypeLib ==
    /\ call.step = "load"
    /\ IF ~control.described \/ ~\E v \in RegisteredVersions : Fits(v)
       THEN Answer(None)
       ELSE IF call.wants = "classinfo" THEN Answer(Version(Loaded))
       ELSE call' = [call EXCEPT !.step = "impls", !.index = 0, !.best = Loaded]
    /\ Quiet

(* Mutant: the first source interface is taken.                            *)
IsDefaultSourceAny(impl) == impl.source /\ impl.readable

IsDefaultSource(impl) == impl.default /\ impl.source /\ impl.readable

(* FindDefaultSourceIID, to the end of the list, where the flags cannot be *)
(* had any more.                                                           *)
NextImplType ==
    /\ call.step = "impls"
    /\ LET i == call.index + 1
       IN IF i > Len(control.impls) THEN Answer(None)
          ELSE IF IsDefaultSource(control.impls[i]) THEN Answer(Source(i))
          ELSE call' = [call EXCEPT !.index = i]
    /\ Quiet

InfoStep ==
    \/ AskControl \/ ReadTypeLibId
    \/ NextKey \/ LastKey \/ LoadRegTypeLib
    \/ NextImplType

(* Installers, at any time during a call.                                  *)
Looking == control.changes /\ call.step \in {"libid", "enum", "load"}

Install(k) ==
    /\ Looking
    /\ versions' = versions \cup {k}
    /\ UNCHANGED <<control, call, kept, removed>>

Uninstall(k) ==
    /\ Looking
    /\ k \in versions
    /\ versions' = versions \ {k}
    /\ kept' = kept \ {k}
    /\ removed' = TRUE
    /\ UNCHANGED <<control, call>>

InfoInit ==
    /\ call = NoCall
    /\ versions = control.versions
    /\ kept = {}
    /\ removed = FALSE

-----------------------------------------------------------------------------
Step == {"idle", "control", "libid", "enum", "load", "impls", "answered"}

InfoTypeOK ==
    /\ control \in Control
    /\ versions \subseteq ToSet(KeyOrder) /\ kept \subseteq ToSet(KeyOrder)
    /\ removed \in BOOLEAN
    /\ call.wants \in {"nothing", "classinfo", "guid", "otherguid"}
    /\ call.step \in Step
    /\ call.index \in Nat
    /\ call.best \in (0 .. Word - 1) \X (0 .. Word - 1)
    /\ call.answer.kind \in {"none", "control", "version", "source"}

(* A name that is read, and means the same in both bases.                  *)
SameInBoth(k) ==
    /\ Readable(k)
    /\ Scanned(k) = <<Value(16, k.major), Value(16, k.minor)>>
    /\ Stored(Scanned(k)) = Scanned(k)

NoneMisread == \A k \in versions : SameInBoth(k) \/ ~Readable(k)

Usable == {k \in kept : SameInBoth(k) /\ Scanned(k) # <<0, 0>>}

NoOlder(v, w) == v[1] > w[1] \/ (v[1] = w[1] /\ v[2] >= w[2])

(* The type library of the class can be found: no version was removed      *)
(* during the call, no name is read as another number than it stands for,  *)
(* and some version registered all the while has a name that is read.      *)
LibraryThere ==
    /\ control.typelib /\ control.described
    /\ ~removed /\ NoneMisread /\ Usable # {}

(* GetClassInfo answers with a version no older than any that was          *)
(* registered during the whole call under a name that is read, and finds   *)
(* one if there is one, even while installers add versions.  Three things  *)
(* are beyond it: the removal of a version, which makes the enumeration    *)
(* pass over another; a name read as another number than it stands for, as *)
(* 10.0, which is version 16; and versions whose names are not read at     *)
(* all, as b.0 or 1.b, which it does not see, so that its answer may be    *)
(* older than they are.                                                    *)
LatestVersion ==
    call.step = "answered" /\ call.wants = "classinfo"
    /\ "classinfo" \notin control.answers /\ LibraryThere =>
        /\ call.answer.kind = "version"
        /\ \A k \in Usable : NoOlder(call.answer.is, Scanned(k))

(* GetGUID answers with the default source interface: the first that is    *)
(* both and can be read, whether the type information comes from the       *)
(* control or from the library, and with none only if there is none, or if *)
(* the control gives no type information and its library cannot be found.  *)
SourceAsDeclared ==
    LET impls == control.impls
        wanted == {i \in DOMAIN impls : impls[i] = [default |-> TRUE, source |-> TRUE,
                                                    readable |-> TRUE]}
    IN call.step = "answered" /\ call.wants = "guid" =>
          /\ call.answer.kind = "source" =>
                call.answer.is \in wanted /\ \A i \in wanted : call.answer.is <= i
          /\ call.answer.kind = "none" =>
                wanted = {} \/ ("classinfo" \notin control.answers /\ ~LibraryThere)
          /\ call.answer.kind # "version"
=============================================================================
