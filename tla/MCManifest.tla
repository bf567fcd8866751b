----------------------------- MODULE MCManifest -----------------------------
(* Model of Manifest for TLC: resources, manifests, options and commands. *)
EXTENDS Manifest

R(path, type, time, size, partner) ==
    [path |-> path, type |-> type, time |-> time, size |-> size, partner |-> partner]

(* Days of three moments; the second and the fourth are at a midnight. *)
A == R("a", "delete", 4, 1, "known")
B == R("b", "delete", 3, 2, "unknown")
C == R("a", "conflict", 8, 4, "unknown")
D == R("b", "conflict", 6, 0, "known")
MCResources == {A, B, C, D}

File(kind, entries) == [kind |-> kind, entries |-> entries]
MCFiles ==
    {File("missing", <<>>), File("unreadable", <<>>), File("manifest", <<>>),
     File("manifest", <<A, Bad, C>>), File("manifest", <<D, A, C, B>>)}

NoOptions == [include |-> {}, exclude |-> {}, types |-> {}, after |-> Nil,
              before |-> Nil, when |-> Nil]
Moment(t) == [kind |-> "moment", time |-> t]
Date(t) == [kind |-> "date", time |-> t]
Name(t) == [kind |-> "name", time |-> t]
MCOptionSets ==
    {NoOptions,
     [NoOptions EXCEPT !.include = {{"a"}, {}}, !.before = Name(8)],
     [NoOptions EXCEPT !.include = {{"a"}, {"b"}}, !.exclude = {{"b"}, {}}],
     [NoOptions EXCEPT !.types = {{"delete"}}, !.after = Moment(3)],
     [NoOptions EXCEPT !.types = {{"delete"}, {"conflict"}}],
     [NoOptions EXCEPT !.after = Date(4), !.before = Date(6)],
     [NoOptions EXCEPT !.when = Name(4)],
     [NoOptions EXCEPT !.when = Date(6)]}

Mode(list, summarize, resolve) ==
    [list |-> list, summarize |-> summarize, resolve |-> resolve]
MCModes == {Mode(FALSE, TRUE, FALSE), Mode(TRUE, FALSE, TRUE), Mode(TRUE, TRUE, FALSE)}
=============================================================================
