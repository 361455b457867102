---------------------------- MODULE MCHostProcess ----------------------------
(* Instances of HostProcess for TLC: the command line, its text and what   *)
(* is installed are varied one at a time.                                  *)
EXTENDS HostProcess

Bare == [form |-> "plain", qt |-> "none", classId |-> "none", embedding |-> FALSE,
         clsid |-> <<>>, ClassId |-> <<>>, timeout |-> "none", modes |-> {},
         logging |-> {}, level |-> "none", registry |-> {}]

Default == [c |-> "clsid", a |-> "empty", cc |-> {}, cr |-> {}, r |-> {}]
Aliased == [Default EXCEPT !.a = "other"]
Full == [c |-> "clsid", a |-> "clsid", cc |-> {{"INPROC_SERVER"}},
         cr |-> {{"LOCAL_SERVER"}}, r |-> {{"MULTIPLEUSE"}}]
Zero == [Default EXCEPT !.cc = {{}}, !.cr = {{}}, !.r = {{}}]
NoClass == [Default EXCEPT !.c = "malformed"]
NoAlias == [Default EXCEPT !.a = "malformed"]

Lists == {<<>>, <<Default>>, <<Aliased, Full>>, <<Zero>>, <<Aliased, NoAlias>>}

(* What SCM passes, with and without more; classes in both spellings;      *)
(* errors before and after the classes are read; the ways to log; options  *)
(* of Qt at the end of the line.                                           *)
MCRequests ==
    {[Bare EXCEPT !.form = f, !.classId = c, !.embedding = e, !.clsid = l,
                  !.logging = g] :
        f \in {"plain", "incomplete", "extra"}, c \in {"none", "clsid", "malformed"},
        e \in BOOLEAN, l \in Lists, g \in {{}, {"enable"}, {"file", "dir"}}}
    \cup
    {[Bare EXCEPT !.clsid = l, !.ClassId = m, !.modes = o, !.timeout = t] :
        l \in Lists, m \in {<<>>, <<Full>>, <<NoClass>>},
        o \in SUBSET {"single-use", "multiple-use"},
        t \in {"none", "duration", "malformed"}}
    \cup
    {[Bare EXCEPT !.clsid = l, !.registry = r, !.logging = g, !.level = v] :
        l \in {<<>>, <<Default>>}, r \in SUBSET {"register", "appid", "unregister", "settings"},
        g \in SUBSET {"enable", "file", "dir"}, v \in {"none", "known", "unknown"}}
    \cup
    {[Bare EXCEPT !.form = f] : f \in {"help", "version"}}
    \cup
    {[Bare EXCEPT !.form = f, !.qt = q, !.classId = c, !.embedding = e, !.clsid = l,
                  !.logging = g, !.level = v, !.timeout = t] :
        f \in {"plain", "extra", "help"}, q \in {"option", "pair"},
        c \in {"none", "clsid", "malformed"}, e \in BOOLEAN, l \in Lists \ {<<Zero>>},
        g \in {{}, {"enable"}, {"file", "dir"}}, v \in {"none", "known"},
        t \in {"none", "malformed"}}

(* Every program and argument of up to three characters, and every pair of *)
(* arguments of up to two.                                                 *)
Chars == {"backslash", "quote", "blank", "slash", "ampersand", "x"}
UpTo(n) == UNION {[1 .. m -> Chars] : m \in 0 .. n}
Program == <<"x", "slash", "x">>
MCLines ==
    {<<Program, a>> : a \in UpTo(3)}
    \cup {<<Program, a, b>> : a \in UpTo(2), b \in UpTo(2)}
    \cup {<<Program>>, <<Program, <<"backslash", "backslash", "backslash", "quote">>>>}

(* 2.0, 1.1 and 2.1; 1.b, of which only the 1 can be read, and nothing of  *)
(* it is; 10.0, which is version 16; a name that does not fit in 16 bits.  *)
(* The order of the keys is the registry's.                                *)
Key(x, y) == [major |-> x, minor |-> y]
MCKeyOrder ==
    <<Key(<<2>>, <<0>>), Key(<<1>>, <<11>>), Key(<<1, 0>>, <<0>>),
      Key(<<1>>, <<1>>), Key(<<2>>, <<1>>), Key(<<6, 5, 5, 3, 7>>, <<0>>)>>

Interface(d, s, r) == [default |-> d, source |-> s, readable |-> r]
MCImpls == {<<>>, <<Interface(TRUE, FALSE, TRUE), Interface(FALSE, TRUE, TRUE),
                    Interface(TRUE, TRUE, FALSE), Interface(TRUE, TRUE, TRUE)>>}

Installed(answers, typelib, changes, keys, described, impls) ==
    [answers |-> answers, typelib |-> typelib, changes |-> changes,
     versions |-> keys, described |-> described, impls |-> impls]

NothingInstalled == Installed({}, FALSE, FALSE, {}, FALSE, <<>>)

MCControls ==
    {NothingInstalled}
    \cup {Installed(a, TRUE, FALSE, {MCKeyOrder[1]}, d, i) :
            a \in SUBSET {"classinfo", "guid", "otherguid"}, d \in BOOLEAN, i \in MCImpls}
    \cup {Installed({}, TRUE, TRUE, v, TRUE, i) :
            v \in SUBSET {MCKeyOrder[1], MCKeyOrder[4]}, i \in MCImpls}

Plain == [Bare EXCEPT !.clsid = <<Default>>]

MCInputs ==
    {<<r, <<Program>>, NothingInstalled>> : r \in MCRequests}
    \cup {<<Plain, l, NothingInstalled>> : l \in MCLines}
    \cup {<<Plain, <<Program>>, c>> : c \in MCControls}
=============================================================================
