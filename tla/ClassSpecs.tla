----------------------------- MODULE ClassSpecs ------------------------------
(***************************************************************************)
(* ClassSpec (class_spec.cc) and the registration flags computed from it.  *)
(* A DWORD of flags is the set of the names of its bits, so that           *)
(* REGCLS_SINGLEUSE, the value 0, is the empty set; a CLSID is abstracted  *)
(* to whether the alias is absent, equal to it, or another CLSID.          *)
(***************************************************************************)
EXTENDS Integers, Sequences

CLSCTX == {"INPROC_SERVER", "LOCAL_SERVER"}
REGCLS == {"MULTIPLEUSE", "MULTI_SEPARATE", "SUSPENDED"}
SINGLEUSE == {}

ClassSpec == [alias    : {"null", "clsid", "other"},
              create   : SUBSET CLSCTX,
              register : SUBSET CLSCTX,
              regcls   : SUBSET REGCLS,
              explicit : BOOLEAN]

(***************************************************************************)
(* The text form c[/a[/cc[/cr[/r]]]] of a specification, without blanks.   *)
(* A number is the set of what can be read from its field: nothing when    *)
(* the field is left out or is no number.                                  *)
(***************************************************************************)
Number(flags) == {{}} \cup {{f} : f \in SUBSET flags}

Item == [c  : {"empty", "clsid", "malformed"},
         a  : {"empty", "clsid", "other", "malformed"},
         cc : Number(CLSCTX), cr : Number(CLSCTX), r : Number(REGCLS)]

(* CLSIDFromString leaves a null GUID behind when it fails, and the user   *)
(* is told so in a message box.                                            *)
OpensBox(item) == "malformed" \in {item.c, item.a}

(* Mutant: a value of 0 for r is taken for a field that was left out.      *)
FromStringNonZero(item) ==
    [alias    |-> IF item.a \in {"clsid", "other"} THEN item.a ELSE "null",
     create   |-> UNION item.cc,
     register |-> UNION item.cr,
     regcls   |-> UNION item.r,
     explicit |-> UNION item.r # {}]

FromString(item) ==
    [alias    |-> IF item.a \in {"clsid", "other"} THEN item.a ELSE "null",
     create   |-> UNION item.cc,
     register |-> UNION item.cr,
     regcls   |-> UNION item.r,
     explicit |-> item.r # {}]

(* What is left of the command line when a RunAsStandalone is built.       *)
Command == [specs : Seq(ClassSpec), regcls : SUBSET REGCLS]

Sanitize(spec, regcls) ==
    [alias    |-> IF spec.alias = "null" THEN "clsid" ELSE spec.alias,
     create   |-> IF spec.create = {} THEN {"INPROC_SERVER"} ELSE spec.create,
     register |-> IF spec.register = {} THEN {"LOCAL_SERVER"} ELSE spec.register,
     regcls   |-> IF spec.explicit THEN spec.regcls
                  ELSE IF regcls = {} THEN SINGLEUSE \cup {"MULTI_SEPARATE"}
                  ELSE regcls,
     explicit |-> spec.explicit]

(* The flags RegisterAllClassFactories passes to every sanitize call.      *)
GlobalRegcls(regcls, suspend) ==
    regcls \cup {"MULTI_SEPARATE"} \cup (IF suspend THEN {"SUSPENDED"} ELSE {})

(* CheckMultipleUse runs before any sanitize: it reads the flags as given. *)
HasMultipleUse(cmd) ==
    \/ "MULTIPLEUSE" \in cmd.regcls
    \/ \E i \in DOMAIN cmd.specs : "MULTIPLEUSE" \in cmd.specs[i].regcls

DoesAutoInprocRegistration(spec) ==
    "LOCAL_SERVER" \in spec.register /\ "MULTIPLEUSE" \in spec.regcls

CanWorkaroundShortCircuit(spec) ==
    "INPROC_SERVER" \in spec.create /\ "LOCAL_SERVER" \notin spec.create

LooksUpOriginal(spec) ==
    DoesAutoInprocRegistration(spec) /\ CanWorkaroundShortCircuit(spec)

(* External: COM withdraws a local class object after its first client     *)
(* only when neither multi-use bit is set.                                 *)
ServesMany(spec) == spec.regcls \cap {"MULTIPLEUSE", "MULTI_SEPARATE"} # {}

Registered(spec) ==
    IF "SUSPENDED" \in spec.regcls THEN "suspended" ELSE "active"
=============================================================================
