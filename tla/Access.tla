-------------------------------- MODULE Access --------------------------------
(***************************************************************************)
(* The access guard in front of every route (src/src/access.rs): requests  *)
(* are checked against the allow list by concurrent tasks.  The PC's own   *)
(* Tailscale identity is often unknown when the process starts; a request  *)
(* that could be the owner's makes the guard look it up again, at most     *)
(* once per interval, while other requests go on.  Rejections are logged   *)
(* at a limited rate.                                                      *)
(***************************************************************************)
EXTENDS AccessRules, Integers, FiniteSets

CONSTANTS
  Guards,         \* concurrent calls of the middleware
  Requests,       \* the requests that arrive: names of the definitions below
  Extra,          \* the texts of --allow-origin and --ui-url
  LOG_PER_MINUTE, \* REJECT_LOG_PER_MINUTE
  MaxSuppressed,  \* BOUND: requests arrive while fewer rejections than this are unlogged
  MaxUnseen,      \* BOUND: the ghost `unseen` counts no further
  MaxChanges,     \* BOUND: changes of what Tailscale reports
  MaxRestarts     \* BOUND: restarts of the process

Request(host, origin, site, forwarded, login) ==
  [funnel |-> Absent, host |-> host, origin |-> origin, fetchSite |-> site,
   forwarded |-> forwarded, login |-> login]

TailscaleHost == [host |-> Lowercase("tailscale"), port |-> None]
TailscalePage == [scheme |-> "https", host |-> Lowercase("tailscale"), port |-> None, rest |-> "none"]
LoginOf(user) == [user |-> Lowercase(user), coding |-> "plain"]
ServedPage(user) ==
  Request(TailscaleHost, TailscalePage, "same-origin", "yes", LoginOf(user))

\* The requests of one name.
RequestOf(name) ==
  CASE name = "owner" -> ServedPage("owner")
    [] name = "guest" -> ServedPage("guest")
    [] name = "local" ->
         Request([host |-> Lowercase("loopback"), port |-> OwnPort], Absent, Absent, Absent, Absent)
    [] name = "foreign" ->
         Request([host |-> Lowercase("foreign"), port |-> None], Absent, Absent, Absent, Absent)
    [] name = "funnel" -> [ServedPage("owner") EXCEPT !.funnel = "yes"]

\* Tailscale at logon: not running, running without a user, complete; later perhaps another user.
Self(user) == [host |-> [name |-> "tailscale", lower |-> FALSE], login |-> user]
OwnerSelf == Self([name |-> "owner", lower |-> FALSE])
Identities == {None, Self(None), OwnerSelf, Self(Lowercase("guest"))}

ASSUME AccessConstants ==
  /\ IsFiniteSet(Guards) /\ None \notin Guards
  /\ None \notin [host : Names, login : Names \cup {None}]
  /\ Requests \subseteq {"owner", "guest", "local", "foreign", "funnel"}
  /\ LOG_PER_MINUTE \in Nat /\ MaxSuppressed \in Nat /\ MaxUnseen \in Nat
  /\ MaxChanges \in Nat /\ MaxRestarts \in Nat

\* "foreign" is a name that no option allows.
ASSUME ExtraTexts ==
  /\ Extra \subseteq OriginTexts
  /\ \A text \in Extra :
       ParseOrigin(text) # None => ParseOrigin(text).host # Lowercase("foreign")

VARIABLES
  list,       \* Access.list
  lastProbe,  \* Access.last_probe: "never", "recent" (within PROBE_INTERVAL) or "past"
  window,     \* RejectLog.window_start: "open" for 60 s, then "over"
  logged,     \* RejectLog.logged
  suppressed, \* RejectLog.suppressed
  task,       \* [Guards -> where the call of guard() is]
  req,        \* [Guards -> the request it works on]
  found,      \* [Guards -> what its lookup found]
  tailscale,  \* the Tailscale service: what `tailscale status` would say
  unseen,     \* ghost: rejections, of every process so far, that the log does not show
  lost,       \* ghost: those of them that a process had only counted when it ended
  owners,     \* ghost: users Tailscale has named as the owner of the PC
  lookups,    \* ghost: lookups started since the interval last began
  changes, restarts

guards == <<task, req, found>>
rejectLog == <<window, logged, suppressed, unseen, lost>>
world == <<tailscale, owners, changes, restarts>>
vars == <<list, lastProbe, lookups, guards, rejectLog, world>>

Steps == {"idle", "maybe", "interval", "probing", "probed", "recheck", "serve", "reject"}

TypeOK ==
  /\ list.tailscale \in
       {None} \cup [host : {Lowercase("tailscale")}, login : {None, OwnerSelf.login, Lowercase("guest")}]
  /\ lastProbe \in {"never", "recent", "past"}
  /\ window \in {"open", "over"}
  /\ logged \in 0..LOG_PER_MINUTE
  /\ suppressed \in 0..(MaxSuppressed + Cardinality(Guards))
  /\ unseen \in Int /\ lost \in Int
  /\ task \in [Guards -> Steps]
  /\ req \in [Guards -> Requests \cup {None}]
  /\ found \in [Guards -> Identities]
  /\ tailscale \in Identities
  /\ lookups \in 0..Cardinality(Guards)
  /\ changes \in 0..MaxChanges /\ restarts \in 0..MaxRestarts

Owner(self) == IF self = None \/ self.login = None THEN {} ELSE {Lower(self.login)}

\* main(): the list starts with whatever `tailscale status` says at that moment, and the counts
\* of the process before are gone: no summary will tell of the rejections it had only counted.
Fresh(self, anyUser) ==
  /\ list' = AllowList(self, Extra, anyUser)
  /\ lastProbe' = "never" /\ lookups' = 0
  /\ window' = "open" /\ logged' = 0 /\ suppressed' = 0
  /\ lost' = unseen /\ UNCHANGED unseen
  /\ task' = [g \in Guards |-> "idle"]
  /\ req' = [g \in Guards |-> None]
  /\ found' = [g \in Guards |-> None]

Init ==
  /\ tailscale \in Identities
  /\ owners = Owner(tailscale)
  /\ \E any \in BOOLEAN : list = AllowList(tailscale, Extra, any)
  /\ lastProbe = "never" /\ lookups = 0
  /\ window = "open" /\ logged = 0 /\ suppressed = 0 /\ unseen = 0 /\ lost = 0
  /\ task = [g \in Guards |-> "idle"]
  /\ req = [g \in Guards |-> None]
  /\ found = [g \in Guards |-> None]
  /\ changes = 0 /\ restarts = 0

Verdict(name) == Check(list, RequestOf(name))
Goto(g, step) == task' = [task EXCEPT ![g] = step]

(***************************************************************************)
(* guard()                                                                 *)
(***************************************************************************)

\* The check, under the lock of the list.
Arrive(g, r) ==
  /\ task[g] = "idle"
  /\ suppressed < MaxSuppressed \/ window = "over"
  /\ req' = [req EXCEPT ![g] = r]
  /\ Goto(g, CASE Verdict(r) = "ok" -> "serve"
               [] Verdict(r) \in {"Host", "TailnetUser"} -> "maybe"
               [] OTHER -> "reject")
  /\ UNCHANGED <<list, lastProbe, lookups, found, rejectLog, world>>

\* should_probe(): could a lookup change the answer ...
LooksIncomplete(g) ==
  /\ task[g] = "maybe"
  /\ Goto(g, IF IdentityIncomplete(list) THEN "interval" ELSE "reject")
  /\ UNCHANGED <<list, lastProbe, lookups, req, found, rejectLog, world>>

\* Mutant of TakesInterval: the interval begins when the answer is there.
TakesInterval_Unmarked(g) ==
  /\ task[g] = "interval"
  /\ IF lastProbe = "recent"
       THEN Goto(g, "reject") /\ UNCHANGED lookups
       ELSE Goto(g, "probing") /\ lookups' = lookups + 1
  /\ UNCHANGED <<list, lastProbe, req, found, rejectLog, world>>

\* ... and is the last one long enough ago?  Under its own lock, and marked at once.
TakesInterval(g) ==
  /\ task[g] = "interval"
  /\ IF lastProbe = "recent"
       THEN Goto(g, "reject") /\ UNCHANGED <<lastProbe, lookups>>
       ELSE Goto(g, "probing") /\ lastProbe' = "recent" /\ lookups' = lookups + 1
  /\ UNCHANGED <<list, req, found, rejectLog, world>>

\* `tailscale status` runs on a blocking thread, as long as it takes.  It may fail.
ProbeReads(g) ==
  /\ task[g] = "probing"
  /\ Goto(g, "probed")
  /\ found' = [found EXCEPT ![g] = tailscale]
  /\ UNCHANGED <<list, lastProbe, lookups, req, rejectLog, world>>

\* Whatever was found replaces what is known by now.
ProbeReturns(g) ==
  /\ task[g] = "probed"
  /\ IF found[g] = None
       THEN Goto(g, "reject") /\ UNCHANGED list
       ELSE Goto(g, "recheck") /\ list' = [list EXCEPT !.tailscale = Learnt(found[g])]
  /\ found' = [found EXCEPT ![g] = None]
  /\ UNCHANGED <<lastProbe, lookups, req, rejectLog, world>>

\* The lock was given back in between.
Recheck(g) ==
  /\ task[g] = "recheck"
  /\ Goto(g, IF Verdict(req[g]) = "ok" THEN "serve" ELSE "reject")
  /\ UNCHANGED <<list, lastProbe, lookups, req, found, rejectLog, world>>

Ends(g) == Goto(g, "idle") /\ req' = [req EXCEPT ![g] = None]

\* The route's own handler runs.
Serve(g) ==
  /\ task[g] = "serve"
  /\ Ends(g)
  /\ UNCHANGED <<list, lastProbe, lookups, found, rejectLog, world>>

\* The client closes its connection during the lookup: the call is dropped where it waits, what
\* the lookup finds is thrown away, and the interval stays marked.
GivesUp(g) ==
  /\ task[g] \in {"probing", "probed"}
  /\ Ends(g)
  /\ found' = [found EXCEPT ![g] = None]
  /\ UNCHANGED <<list, lastProbe, lookups, rejectLog, world>>

\* Mutant of NewWindow: the summary is forgotten.
NewWindow_NoSummary == [logged |-> 0, suppressed |-> 0, summary |-> 0]

\* A new window, and one line that sums up what was suppressed in the last one.
NewWindow == [logged |-> 0, suppressed |-> 0, summary |-> suppressed]

SameWindow == [logged |-> logged, suppressed |-> suppressed, summary |-> 0]

Capped(n) == IF n < MaxUnseen THEN n ELSE MaxUnseen

\* may_log_rejection(), and 403.
Reject(g) ==
  LET log == IF window = "over" THEN NewWindow ELSE SameWindow IN
  /\ task[g] = "reject"
  /\ window' = "open"
  /\ IF log.logged < LOG_PER_MINUTE
       THEN /\ logged' = log.logged + 1 /\ suppressed' = log.suppressed
            /\ unseen' = Capped(unseen - log.summary)
       ELSE /\ logged' = log.logged /\ suppressed' = log.suppressed + 1
            /\ unseen' = Capped(unseen - log.summary + 1)
  /\ Ends(g)
  /\ UNCHANGED <<list, lastProbe, lookups, found, lost, world>>

(***************************************************************************)
(* Time, Tailscale and the life of the process                             *)
(***************************************************************************)
IntervalPasses ==
  /\ lastProbe = "recent"
  /\ lastProbe' = "past" /\ lookups' = 0
  /\ UNCHANGED <<list, guards, rejectLog, world>>

MinutePasses ==
  /\ window = "open"
  /\ window' = "over"
  /\ UNCHANGED <<list, lastProbe, lookups, guards, logged, suppressed, unseen, lost, world>>

TailscaleChanges ==
  /\ changes < MaxChanges
  /\ changes' = changes + 1
  /\ tailscale' \in Identities \ {tailscale}
  /\ owners' = owners \cup Owner(tailscale')
  /\ UNCHANGED <<list, lastProbe, lookups, guards, rejectLog, restarts>>

\* The process starts again, with the list of what Tailscale reports at that moment.
Restart ==
  /\ restarts < MaxRestarts
  /\ restarts' = restarts + 1
  /\ Fresh(tailscale, list.anyUser)
  /\ UNCHANGED <<tailscale, owners, changes>>

GuardStep(g) ==
  \/ LooksIncomplete(g) \/ TakesInterval(g) \/ ProbeReads(g) \/ ProbeReturns(g)
  \/ Recheck(g) \/ Serve(g) \/ Reject(g)

Next ==
  \/ \E g \in Guards : GuardStep(g) \/ GivesUp(g) \/ \E r \in Requests : Arrive(g, r)
  \/ IntervalPasses \/ MinutePasses \/ TailscaleChanges \/ Restart

Spec == Init /\ [][Next]_vars

\* Tasks and lookups end, time passes, and the owner tries again and again.
Fairness ==
  /\ \A g \in Guards : WF_vars(GuardStep(g))
  /\ WF_vars(IntervalPasses) /\ WF_vars(MinutePasses)
  /\ SF_vars(\E g \in Guards : Arrive(g, "owner"))

FairSpec == Spec /\ Fairness

(***************************************************************************)
(* Properties                                                              *)
(***************************************************************************)

\* A request that came through `tailscale serve` is served only to a user Tailscale has named as
\* the owner of the PC, whatever lookups, restarts and changes of the identity come in between;
\* Funnel and foreign names never get through (access.rs:14-20, 23-29).
ServedRightly ==
  /\ TypeOK
  /\ \A g \in Guards : task[g] = "serve" =>
       LET r == RequestOf(req[g]) IN
       /\ r.funnel = Absent /\ req[g] # "foreign"
       /\ r.forwarded # Absent => list.anyUser \/ Lower(DecodeQWords(r.login)) \in owners

\* However many requests are rejected at once, `tailscale status` is started at most once per
\* interval (access.rs:37-39, 382).
OneLookup == lookups <= 1

\* The log catches up: as long as requests keep being rejected, there is again and again a moment
\* when every rejection so far is a line of its own or part of a summary, those excepted that a
\* process had only counted when it ended (access.rs:40-41, 395).
RejectionsReported == []<>(\E g \in Guards : task[g] = "reject") => []<>(unseen = lost)

\* Before anything was looked up: the texts of headers that pass are exactly those the head of
\* access.rs allows, however an address or a login is written (access.rs:23-29).
JustStarted == lastProbe = "never" /\ task = [g \in Guards |-> "idle"] /\ logged = 0

SomeNames == [name : Hosts, lower : BOOLEAN] \cup {Malformed}
SomePorts == {None, Malformed} \cup Ports
SomeHosts == [host : SomeNames, port : SomePorts]
SomeOrigins ==
  [scheme : {"http", "https", "other"}, host : SomeNames, port : SomePorts,
   rest : {"none", "slash", "path", "user"}]
Sites == {"none", "same-origin", "same-site", "cross-site"}
SomeLogins == [user : Spelled("owner") \cup Spelled("guest"), coding : {"plain", "q", "broken"}]

\* The owner's request and a local one with any text in one of the headers.
AnyRequest ==
  UNION {LET r == RequestOf(name) IN
           {[r EXCEPT !.host = h] : h \in SomeHosts \cup {Absent, Unreadable}}
             \cup {[r EXCEPT !.origin = o] : o \in SomeOrigins \cup {Absent, Unreadable}}
             \cup {[r EXCEPT !.login = l] : l \in SomeLogins \cup {Absent, Unreadable}}
             \cup {[r EXCEPT !.fetchSite = s] : s \in {Absent, Unreadable} \cup Sites}
             \cup {[r EXCEPT !.funnel = f] : f \in {Absent, Unreadable, "yes"}}
             \cup {[r EXCEPT !.forwarded = f] : f \in {Absent, Unreadable, "yes"}} :
         name \in {"owner", "local"}}

RulesAsDocumented ==
  JustStarted => \A r \in AnyRequest : (Check(list, r) = "ok") <=> AsDocumented(list, r)

\* The owner is not locked out for ever: once Tailscale keeps reporting the owner, the owner's
\* requests pass from some time on, even if slow lookups bring back older answers.  A complete
\* identity is never looked up again, so it must be the right one; and lookups bring nothing while
\* those who wait for them give up (access.rs:37-38, 298, 440).
NeverAnother == list.tailscale \in {None, Learnt(Self(None)), Learnt(OwnerSelf)}
OwnerGetsIn ==
  /\ <>[](tailscale = OwnerSelf) /\ []NeverAnother
  /\ <>[][~ \E g \in Guards : GivesUp(g)]_vars
  => <>[](Verdict("owner") = "ok")
=============================================================================
