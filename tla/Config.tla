------------------------------- MODULE Config -------------------------------
(***************************************************************************)
(* dfsrconfig/client*.go with membercache: one fetch of the domain's       *)
(* configuration from Active Directory.  Groups() spawns one goroutine for *)
(* each replication group and takes their results in order; the goroutines *)
(* share a cache of the members they have met, which connections are       *)
(* resolved from.                                                          *)
(*                                                                         *)
(* Every call of the ADSI client may fail.  The calls that one function    *)
(* makes between two accesses to the cache are one step.  `failed' and     *)
(* `ignored' record that a call has failed, and that the code has gone on  *)
(* as if it had not: an iterator's error ends a loop as its end does.      *)
(***************************************************************************)
EXTENDS Naturals, Sequences

CONSTANTS
    Directory,   \* for each group its members, for each member its connections
    NoDN         \* the empty distinguished name

Groups == DOMAIN Directory
DNs == UNION {{m.dn : m \in {Directory[g][i] : i \in DOMAIN Directory[g]}} : g \in Groups}
       \cup UNION {UNION {{Directory[g][i].conns[k] : k \in DOMAIN Directory[g][i].conns}
                             : i \in DOMAIN Directory[g]} : g \in Groups}

ASSUME ConfigAssumption ==
    /\ Directory \in Seq(Seq([dn : DNs, indirect : BOOLEAN, conns : Seq(DNs)]))
    /\ NoDN \notin DNs

VARIABLES
    main,        \* Domain and Groups: their place, err and groups
    fetch,       \* the goroutine of each group
    cache,       \* c.mc: what is known of each member
    failed,      \* a call has failed and its error was returned
    ignored      \* a call has failed and its error was dropped

configVars == <<main, fetch, cache, failed, ignored>>

Places == {"none", "group", "members", "member", "open", "conns", "retrieve",
           "lookup", "send", "done"}

(* What has been read of a member. *)
MemberRecords == [dn : DNs \cup {NoDN}, indirect : BOOLEAN, conns : Seq(DNs)]

ConfigTypeOK ==
    /\ main \in [at : {"naming", "open", "iterate", "drain", "returned"},
                 next : 1 .. Len(Directory) + 1,
                 err : BOOLEAN,
                 groups : Seq(Seq(MemberRecords))]
    /\ fetch \in [Groups -> [at : Places, err : BOOLEAN, got : Seq(MemberRecords)]]
    /\ \A g \in Groups : Len(fetch[g].got) <= Len(Directory[g])
    /\ cache \in [DNs \cup {NoDN} -> {"none", "nosettings", "full"}]
    /\ failed \in BOOLEAN
    /\ ignored \in BOOLEAN

(* NewClient *)
ConfigInit ==
    /\ main = [at |-> "naming", next |-> 1, err |-> FALSE, groups |-> <<>>]
    /\ fetch = [g \in Groups |-> [at |-> "none", err |-> FALSE, got |-> <<>>]]
    /\ cache = [d \in DNs \cup {NoDN} |-> "none"]
    /\ failed = FALSE
    /\ ignored = FALSE

-----------------------------------------------------------------------------
(* Domain and Groups *)

(* Domain returns an error, and no configuration. *)
Fails ==
    /\ main' = [main EXCEPT !.at = "returned", !.err = TRUE]
    /\ failed' = TRUE

(* c.NamingContext() *)
NamingContext ==
    /\ main.at = "naming"
    /\ \/ main' = [main EXCEPT !.at = "open"] /\ UNCHANGED failed
       \/ Fails
    /\ UNCHANGED <<fetch, cache, ignored>>

(* Groups opens the container of the global settings. *)
OpenSettings ==
    /\ main.at = "open"
    /\ \/ main' = [main EXCEPT !.at = "iterate"] /\ UNCHANGED failed
       \/ Fails
    /\ UNCHANGED <<fetch, cache, ignored>>

(* iter.Next() finds a group. *)
SpawnGroup ==
    /\ main.at = "iterate"
    /\ main.next <= Len(Directory)
    /\ fetch' = [fetch EXCEPT ![main.next].at = "group"]
    /\ main' = [main EXCEPT !.next = @ + 1]
    /\ UNCHANGED <<cache, failed, ignored>>

(* iter.Next() fails, at the end of the groups or before it. *)
StopIterating ==
    /\ main.at = "iterate"
    /\ ignored' = (ignored \/ main.next <= Len(Directory))
    /\ main' = [main EXCEPT !.at = "drain", !.next = 1]
    /\ UNCHANGED <<fetch, cache, failed>>

Spawned(g) == fetch[g].at # "none"

(* <-results[i], for every group that was found; the first error stays. *)
Drain ==
    LET g == main.next IN
    /\ main.at = "drain"
    /\ g \in Groups /\ fetch[g].at = "done"
    /\ main' = [main EXCEPT
                   !.next = @ + 1,
                   !.err = @ \/ fetch[g].err,
                   !.groups = IF main.err \/ fetch[g].err THEN <<>>
                              ELSE Append(@, fetch[g].got)]
    /\ UNCHANGED <<fetch, cache, failed, ignored>>

(* Groups and Domain return. *)
Returns ==
    /\ main.at = "drain"
    /\ \A g \in Groups : g >= main.next => ~Spawned(g)
    /\ main' = [main EXCEPT !.at = "returned"]
    /\ UNCHANGED <<fetch, cache, failed, ignored>>

-----------------------------------------------------------------------------
(* The goroutine of a group *)

GoTo(g, at) == fetch' = [fetch EXCEPT ![g].at = at]

OnlySuccesses == "lost"
(* group() returns an error, which the goroutine sends as well. *)
OnError == "send"

(* An error is returned up to the goroutine. *)
Gives(g) ==
    /\ fetch' = [fetch EXCEPT ![g].at = OnError, ![g].err = TRUE]
    /\ failed' = TRUE

(* folders(): its iterator may fail before the end. *)
Folders == {ignored, TRUE}

(* group() up to the members. *)
ReadGroup(g) ==
    /\ fetch[g].at = "group"
    /\ \/ GoTo(g, "members") /\ ignored' \in Folders /\ UNCHANGED failed
       \/ Gives(g) /\ UNCHANGED ignored
    /\ UNCHANGED <<main, cache>>

(* members(): the next member, or the end of the iteration. *)
NextMember(g) ==
    LET m == Len(fetch[g].got) + 1 IN
    /\ fetch[g].at = "members"
    /\ \/ /\ m <= Len(Directory[g])
          /\ GoTo(g, "member")
          /\ UNCHANGED ignored
       \/ /\ GoTo(g, "send")
          /\ ignored' = (ignored \/ m <= Len(Directory[g]))
    /\ UNCHANGED <<main, cache, failed>>

SettingsErrorDropped == FALSE
(* The error of LocalSettings is returned with the member. *)
SettingsError == TRUE

(* What c.mc.Set puts in the cache when LocalSettings has failed: the member
   is complete but for its settings. *)
WithoutSettings == "nosettings"

(* memberInfo: the member goes to the cache when its computer is known, even
   if its settings are not. *)
MemberInfo(g, key, next) ==
    \/ /\ cache' = [cache EXCEPT ![key] = "full"]
       /\ fetch' = next
       /\ UNCHANGED failed
    \/ /\ cache' = [cache EXCEPT ![key] = WithoutSettings]
       /\ failed' = TRUE
       /\ fetch' = IF SettingsError THEN [fetch EXCEPT ![g].at = OnError, ![g].err = TRUE]
                   ELSE next
    \/ /\ Gives(g)
       /\ UNCHANGED cache

(* member(): memberInfo asks the object for its path; the error of that call
   is dropped, which leaves the member without a name. *)
ReadMember(g) ==
    LET member == Directory[g][Len(fetch[g].got) + 1] IN
    /\ fetch[g].at = "member"
    /\ \E dn \in {member.dn, NoDN} :
          /\ MemberInfo(g, dn, [fetch EXCEPT
                 ![g].at = "open",
                 ![g].got = Append(@, [dn |-> dn, indirect |-> member.indirect,
                                       conns |-> <<>>])])
          /\ ignored' = (ignored \/ dn = NoDN)
    /\ UNCHANGED main

(* The member that the goroutine is reading, and its connections so far. *)
Current(g) == Directory[g][Len(fetch[g].got)]
Conns(g) == fetch[g].got[Len(fetch[g].got)].conns

(* member() and connections() up to the iteration.  A failure to read
   serverReference sends the code to the wrong container, which is empty. *)
OpenConnections(g) ==
    /\ fetch[g].at = "open"
    /\ \/ GoTo(g, "conns") /\ UNCHANGED <<failed, ignored>>
       \/ Gives(g) /\ UNCHANGED ignored
       \/ /\ Current(g).indirect
          /\ GoTo(g, "members")
          /\ ignored' = TRUE
          /\ UNCHANGED failed
    /\ UNCHANGED <<main, cache>>

(* connections(): the next connection, up to its member, or the end. *)
NextConnection(g) ==
    LET k == Len(Conns(g)) + 1 IN
    /\ fetch[g].at = "conns"
    /\ \/ /\ k <= Len(Current(g).conns)
          /\ \/ GoTo(g, "retrieve") /\ UNCHANGED failed
             \/ Gives(g)
          /\ UNCHANGED ignored
       \/ /\ GoTo(g, "members")
          /\ ignored' = (ignored \/ k <= Len(Current(g).conns))
          /\ UNCHANGED failed
    /\ UNCHANGED <<main, cache>>

Partner(g) == Current(g).conns[Len(Conns(g)) + 1]

(* The connection is complete. *)
Connected(g) ==
    [fetch EXCEPT ![g].at = "conns",
                  ![g].got[Len(fetch[g].got)].conns = Append(@, Partner(g))]

(* c.mc.Retrieve: a member in the cache gives the connection its computer. *)
Retrieve(g) ==
    /\ fetch[g].at = "retrieve"
    /\ fetch' = IF cache[Partner(g)] # "none" THEN Connected(g)
                ELSE [fetch EXCEPT ![g].at = "lookup"]
    /\ UNCHANGED <<main, cache, failed, ignored>>

(* MemberInfo of a member that was not in the cache. *)
LookupMember(g) ==
    /\ fetch[g].at = "lookup"
    /\ MemberInfo(g, Partner(g), Connected(g))
    /\ UNCHANGED <<main, ignored>>

(* ch <- groupResult{...}; the channel has room for it. *)
SendResult(g) ==
    /\ fetch[g].at = "send"
    /\ GoTo(g, "done")
    /\ UNCHANGED <<main, cache, failed, ignored>>

-----------------------------------------------------------------------------
MainStep == NamingContext \/ OpenSettings \/ SpawnGroup \/ StopIterating \/ Drain \/ Returns
GroupStep(g) ==
    \/ ReadGroup(g) \/ NextMember(g) \/ ReadMember(g) \/ OpenConnections(g)
    \/ NextConnection(g) \/ Retrieve(g) \/ LookupMember(g) \/ SendResult(g)

ConfigNext == MainStep \/ \E g \in Groups : GroupStep(g)

(* Goroutines run and Active Directory answers. *)
ConfigFairness == WF_configVars(MainStep) /\ \A g \in Groups : WF_configVars(GroupStep(g))

ConfigSpec == ConfigInit /\ [][ConfigNext]_configVars
FairConfigSpec == ConfigSpec /\ ConfigFairness

-----------------------------------------------------------------------------
(* Properties *)

(* What Domain returns is honest.  Every failure that the code looks at makes
   it return an error, and only such a failure, although memberInfo caches a
   member whose settings it could not read and another group may go on with
   it.  Without an error, and unless a failure was dropped, the configuration
   is all of the directory's, the groups in its order. *)
ResultIsHonest ==
    main.at = "returned" =>
        /\ main.err <=> failed
        /\ main.err => main.groups = <<>>
        /\ ~main.err /\ ~ignored => main.groups = Directory

(* Domain returns, with the goroutines of all its groups at their end: one
   that fails leaves nobody waiting, neither its reader nor another one. *)
FetchReturns ==
    <>[](main.at = "returned" /\ \A g \in Groups : fetch[g].at \in {"none", "done"})
=============================================================================
