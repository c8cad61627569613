----------------------------- MODULE AccessProofs -----------------------------
(***************************************************************************)
(* Proofs about Access for every number of concurrent requests, every set  *)
(* of --allow-origin texts and every order of lookups, restarts and        *)
(* changes of the identity: who is served, how often Tailscale is asked,   *)
(* that no rejection is lost from the log, and that the rules are the      *)
(* documented ones for every text of a header.                             *)
(***************************************************************************)
EXTENDS Access, FiniteSetTheorems, TLAPS

(***************************************************************************)
(* Names and identities                                                    *)
(***************************************************************************)
LEMMA LowerName == ASSUME NEW s \in Names
                   PROVE  /\ Lower(s) = Lowercase(s.name) /\ Lower(s) \in Names
                          /\ Lower(s).name = s.name
<1>1. Lower(s) \in Names /\ Lower(s).name = s.name /\ Lower(s).lower = TRUE
  BY DEF Names, Lower
<1>2. Lowercase(s.name) \in Names /\ Lowercase(s.name).name = s.name
      /\ Lowercase(s.name).lower = TRUE
  BY DEF Names, Lowercase
<1>3. QED BY <1>1, <1>2 DEF Names

LEMMA LowercaseName == ASSUME NEW n \in Hosts \cup {"owner", "guest"}
                       PROVE  /\ Lowercase(n) \in Names /\ Lowercase(n).name = n
                              /\ Lower(Lowercase(n)) = Lowercase(n)
<1>1. Lowercase(n) \in Names /\ Lowercase(n).name = n
  BY DEF Names, Lowercase
<1>2. QED BY <1>1, LowerName

\* What Access.list may know of the PC.
Logins == {None, OwnerSelf.login, Lowercase("guest")}
Known == {None} \cup [host : {Lowercase("tailscale")}, login : Logins]

LEMMA LoginNames ==
  /\ OwnerSelf.login = [name |-> "owner", lower |-> FALSE]
  /\ Logins \subseteq Names \cup {None}
  /\ Lower(OwnerSelf.login) = Lowercase("owner")
<1>1. OwnerSelf.login = [name |-> "owner", lower |-> FALSE]
  BY DEF OwnerSelf, Self
<1>2. OwnerSelf.login \in Names /\ OwnerSelf.login.name = "owner"
  BY <1>1 DEF Names, Hosts
<1>3. Lowercase("guest") \in Names
  BY LowercaseName DEF Hosts
<1>4. QED BY <1>1, <1>2, <1>3, LowerName DEF Logins

LEMMA LearntIsKnown ==
  ASSUME NEW self \in Identities
  PROVE  Learnt(self) \in Known /\ Owner(Learnt(self)) = Owner(self)
<1>. DEFINE h == [name |-> "tailscale", lower |-> FALSE]
<1>0. /\ h \in Names /\ h.name = "tailscale"
  BY DEF Names, Hosts
<1>1. ASSUME self # None PROVE \E user \in Logins : self = [host |-> h, login |-> user]
  <2>1. self \in {Self(None), Self([name |-> "owner", lower |-> FALSE]), Self(Lowercase("guest"))}
    BY <1>1 DEF Identities, OwnerSelf
  <2>2. QED BY <2>1, LoginNames DEF Self, Logins
<1>2. CASE self = None
  BY <1>2 DEF Learnt, Known, Owner
<1>3. ASSUME NEW user \in Logins, self = [host |-> h, login |-> user], self # None
      PROVE  Learnt(self) \in Known /\ Owner(Learnt(self)) = Owner(self)
  <2>. DEFINE known == [host |-> Lowercase("tailscale"), login |-> user]
  <2>1. Lower(h) = Lowercase("tailscale")
    BY <1>0, LowerName
  <2>2. Learnt(self) = known
    <3>1. /\ self \in [host : Names, login : Logins] /\ self.host = h
          /\ self.login = user
      BY <1>0, <1>3
    <3>2. Learnt(self) = [self EXCEPT !.host = Lowercase("tailscale")]
      BY <1>3, <2>1, <3>1 DEF Learnt
    <3>3. QED BY <1>3, <3>1, <3>2
  <2>3. known \in Known /\ known.login = user /\ self.login = user
    BY <1>3 DEF Known
  <2>4. known # None
    <3>1. known \in [host : Names, login : Names \cup {None}]
      BY LoginNames, LowercaseName DEF Hosts
    <3>2. QED BY <3>1, AccessConstants
  <2>5. QED BY <1>3, <2>2, <2>3, <2>4 DEF Owner
<1>4. QED BY <1>1, <1>2, <1>3

(***************************************************************************)
(* Parsing                                                                 *)
(***************************************************************************)
LEMMA Splits ==
  ASSUME NEW t, t.host \in Names \cup {Malformed}, t.port \in PortTexts
  PROVE  /\ SplitHostPort(t) = None <=> t.host = Malformed \/ t.port = Malformed
         /\ SplitHostPort(t) # None =>
              /\ t.host \in Names /\ t.port \in Nat \cup {None}
              /\ SplitHostPort(t).host = Lowercase(t.host.name)
              /\ SplitHostPort(t).host \in Names
              /\ SplitHostPort(t).port = t.port
<1>1. CASE t.host = Malformed \/ t.port = Malformed
  BY <1>1 DEF SplitHostPort
<1>2. CASE t.host # Malformed /\ t.port # Malformed
  <2>1. t.host \in Names /\ t.port \in Nat \cup {None}
    BY <1>2 DEF PortTexts
  <2>2. Lower(t.host) = Lowercase(t.host.name) /\ Lower(t.host) \in Names
    BY <2>1, LowerName
  <2>3. SplitHostPort(t) = [host |-> Lower(t.host), port |-> t.port]
    BY <1>2 DEF SplitHostPort
  <2>4. [host |-> Lower(t.host), port |-> t.port] \in HostPorts
    BY <2>1, <2>2 DEF HostPorts
  <2>5. SplitHostPort(t) # None
    BY <2>3, <2>4, RulesConstants
  <2>6. QED BY <1>2, <2>1, <2>2, <2>3, <2>5
<1>3. QED BY <1>1, <1>2

LEMMA DefaultPorts ==
  /\ DefaultPort("http") = 80 /\ DefaultPort("https") = 443 /\ DefaultPort("other") = None
  /\ None # 80 /\ None # 443
<1>1. None # 80 /\ None # 443
  BY RulesConstants
<1>2. QED BY <1>1 DEF DefaultPort

\* When an origin has a meaning, and which.
LEMMA Parses ==
  ASSUME NEW t \in OriginTexts
  PROVE  /\ ParseOrigin(t) # None <=>
              /\ t.scheme \in {"http", "https"} /\ t.rest \in {"none", "slash"}
              /\ t.host # Malformed /\ t.port # Malformed
         /\ ParseOrigin(t) # None =>
              /\ ParseOrigin(t) \in Origins
              /\ ParseOrigin(t).scheme = t.scheme
              /\ t.host \in Names /\ ParseOrigin(t).host = Lowercase(t.host.name)
              /\ ParseOrigin(t).port = IF t.port = None THEN DefaultPort(t.scheme) ELSE t.port
<1>. DEFINE at == SplitHostPort(t)
            port == IF at.port = None THEN DefaultPort(t.scheme) ELSE at.port
<1>1. /\ t.scheme \in {"http", "https", "other"} /\ t.rest \in {"none", "slash", "path", "user"}
      /\ t.host \in Names \cup {Malformed} /\ t.port \in PortTexts
  BY DEF OriginTexts
<1>2. /\ at = None <=> t.host = Malformed \/ t.port = Malformed
      /\ at # None =>
           /\ t.host \in Names /\ t.port \in Nat \cup {None}
           /\ at.host = Lowercase(t.host.name) /\ at.host \in Names /\ at.port = t.port
  BY <1>1, Splits
<1>3. DefaultPort(t.scheme) = None <=> t.scheme = "other"
  BY <1>1, DefaultPorts
<1>4. CASE t.scheme = "other" \/ at = None \/ t.rest \in {"path", "user"}
  <2>1. ParseOrigin(t) = None
    BY <1>3, <1>4 DEF ParseOrigin
  <2>2. QED BY <1>2, <1>4, <2>1
<1>5. CASE t.scheme # "other" /\ at # None /\ t.rest \notin {"path", "user"}
  <2>1. ParseOrigin(t) = [scheme |-> t.scheme, host |-> at.host, port |-> port]
    BY <1>3, <1>5 DEF ParseOrigin, PortOf
  <2>2. t.scheme \in {"http", "https"} /\ DefaultPort(t.scheme) \in Nat
    BY <1>1, <1>5, DefaultPorts
  <2>3. port \in Nat /\ at.host \in Names
    BY <1>2, <1>5, <2>2
  <2>4. ParseOrigin(t) \in Origins
    BY <2>1, <2>2, <2>3 DEF Origins
  <2>5. ParseOrigin(t) # None
    BY <2>4, RulesConstants
  <2>6. t.rest \in {"none", "slash"}
    BY <1>1, <1>5
  <2>7. /\ ParseOrigin(t).scheme = t.scheme /\ ParseOrigin(t).host = at.host
        /\ ParseOrigin(t).port = port
    BY <2>1
  <2>8. QED BY <1>2, <1>5, <2>2, <2>4, <2>5, <2>6, <2>7
<1>6. QED BY <1>1, <1>4, <1>5

(***************************************************************************)
(* The allow list                                                          *)
(***************************************************************************)
Pages == {ParseOrigin(text) : text \in Extra} \ {None}
Lists == [port : {OwnPort}, tailscale : Known, anyUser : BOOLEAN, extra : {Pages}]

LEMMA PageAddresses ==
  ASSUME NEW a \in Pages
  PROVE  a \in Origins /\ a.host = Lowercase(a.host.name) /\ a.host # Lowercase("foreign")
<1>1. PICK t \in Extra : a = ParseOrigin(t) /\ ParseOrigin(t) # None
  BY DEF Pages
<1>2. t \in OriginTexts /\ a.host # Lowercase("foreign")
  BY <1>1, ExtraTexts
<1>3. a \in Origins /\ a.host = Lowercase(t.host.name) /\ t.host \in Names
  BY <1>1, <1>2, Parses
<1>4. Lowercase(t.host.name).name = t.host.name
  BY DEF Lowercase
<1>5. QED BY <1>2, <1>3, <1>4

LEMMA NameDiffers ==
  /\ Lowercase("tailscale") # Lowercase("loopback") /\ Lowercase("tailscale") # Lowercase("foreign")
  /\ Lowercase("foreign") # Lowercase("loopback")
<1>1. ASSUME NEW n, NEW m, Lowercase(n) = Lowercase(m) PROVE n = m
  <2>1. Lowercase(n).name = n /\ Lowercase(m).name = m
    BY DEF Lowercase
  <2>2. QED BY <1>1, <2>1
<1>2. QED BY <1>1

LEMMA ListAddresses ==
  ASSUME NEW l \in Lists, NEW a \in Addresses(l)
  PROVE  a \in Origins /\ a.host = Lowercase(a.host.name) /\ a.host # Lowercase("foreign")
<1>1. CASE a \in Pages
  BY <1>1, PageAddresses
<1>2. CASE a \notin Pages
  <2>1. l.extra = Pages /\ l.tailscale \in Known
    BY DEF Lists
  <2>2. l.tailscale # None /\ a = [scheme |-> "https", host |-> l.tailscale.host, port |-> 443]
    BY <1>2, <2>1 DEF Addresses, TailscaleOrigin
  <2>3. l.tailscale.host = Lowercase("tailscale")
    BY <2>1, <2>2 DEF Known
  <2>4. a.host = Lowercase("tailscale") /\ a.scheme = "https" /\ a.port = 443
    BY <2>2, <2>3
  <2>5. Lowercase("tailscale") \in Names /\ Lowercase("tailscale").name = "tailscale"
    BY LowercaseName DEF Hosts
  <2>6. a \in Origins
    BY <2>2, <2>3, <2>5 DEF Origins
  <2>7. QED BY <2>4, <2>5, <2>6, NameDiffers
<1>3. QED BY <1>1, <1>2

LEMMA OwnerNames ==
  ASSUME NEW l \in Lists
  PROVE  /\ OwnerOf(l) \in Names \cup {None}
         /\ OwnerOf(l) # None => Owner(l.tailscale) = {Lower(OwnerOf(l))}
<1>1. l.tailscale \in Known
  BY DEF Lists
<1>2. l.tailscale # None => l.tailscale.login \in Names \cup {None}
  BY <1>1, LoginNames DEF Known
<1>3. QED BY <1>2 DEF OwnerOf, Owner

(***************************************************************************)
(* What a request that passes has shown                                    *)
(***************************************************************************)
Rightly(name) ==
  LET r == RequestOf(name) IN
  /\ r.funnel = Absent /\ name # "foreign"
  /\ r.forwarded # Absent => list.anyUser \/ Lower(DecodeQWords(r.login)) \in owners

LEMMA Fields ==
  ASSUME NEW h, NEW o, NEW s, NEW f, NEW l
  PROVE  /\ Request(h, o, s, f, l).funnel = Absent /\ Request(h, o, s, f, l).host = h
         /\ Request(h, o, s, f, l).origin = o /\ Request(h, o, s, f, l).fetchSite = s
         /\ Request(h, o, s, f, l).forwarded = f /\ Request(h, o, s, f, l).login = l
BY DEF Request

LEMMA NotAllowed == ASSUME list \in Lists PROVE Verdict("foreign") # "ok"
<1>. DEFINE t == [host |-> Lowercase("foreign"), port |-> None]
            at == SplitHostPort(t)
            r == RequestOf("foreign")
<1>1. r.host = t
  BY Fields DEF RequestOf
<1>2. at.host = Lowercase("foreign")
  <2>1. t.host = Lowercase("foreign") /\ t.port = None
    OBVIOUS
  <2>2. t.host \in Names /\ t.host.name = "foreign" /\ t.port \in PortTexts
    BY <2>1, LowercaseName DEF Hosts, PortTexts
  <2>3. t.host # Malformed /\ t.port # Malformed
    BY <2>1, <2>2, RulesConstants
  <2>4. QED BY <2>2, <2>3, Splits
<1>3. ~HostOk(list, t)
  BY <1>2, ListAddresses, NameDiffers DEF HostOk, IsLoopback
<1>4. QED BY <1>1, <1>3 DEF Verdict, Check

LEMMA Passes ==
  ASSUME list \in Lists, Owner(list.tailscale) \subseteq owners,
         NEW name \in Requests, Verdict(name) = "ok"
  PROVE  Rightly(name)
<1>. DEFINE r == RequestOf(name)
<1>1. r.funnel = Absent
  BY DEF Verdict, Check
<1>2. name # "foreign"
  BY NotAllowed
<1>3. ASSUME r.forwarded # Absent, ~list.anyUser
      PROVE  Lower(DecodeQWords(r.login)) \in owners
  <2>1. TailnetUserOk(list, r.login)
    BY <1>3 DEF Verdict, Check
  <2>2. OwnerOf(list) # None /\ Lower(DecodeQWords(r.login)) = Lower(OwnerOf(list))
    BY <1>3, <2>1 DEF TailnetUserOk, LoginIs
  <2>3. QED BY <2>2, OwnerNames
<1>4. QED BY <1>1, <1>2, <1>3 DEF Rightly

(***************************************************************************)
(* The inductive invariant                                                 *)
(***************************************************************************)

\* The calls of guard() that are on their way.
Busy(f) == {g \in Guards : f[g] # "idle"}

LEMMA BusyCounts ==
  ASSUME NEW f
  PROVE  /\ IsFiniteSet(Busy(f)) /\ Cardinality(Busy(f)) \in Nat
         /\ Cardinality(Busy(f)) <= Cardinality(Guards) /\ Cardinality(Guards) \in Nat
<1>1. Busy(f) \in SUBSET Guards /\ IsFiniteSet(Guards)
  BY AccessConstants DEF Busy
<1>2. QED BY <1>1, FS_Subset, FS_CardinalityType

LEMMA BusyMoves ==
  ASSUME task \in [Guards -> Steps], NEW g \in Guards, NEW s \in Steps, Goto(g, s)
  PROVE  /\ (task[g] = "idle" <=> s = "idle") => Cardinality(Busy(task')) = Cardinality(Busy(task))
         /\ task[g] # "idle" /\ s = "idle" =>
              Cardinality(Busy(task')) = Cardinality(Busy(task)) - 1
         /\ task' \in [Guards -> Steps]
<1>. /\ task'[g] = s /\ task' \in [Guards -> Steps]
     /\ \A h \in Guards : h # g => task'[h] = task[h]
  BY DEF Goto
<1>1. ASSUME task[g] = "idle" <=> s = "idle" PROVE Busy(task') = Busy(task)
  BY <1>1 DEF Busy
<1>2. ASSUME task[g] # "idle", s = "idle"
      PROVE  Cardinality(Busy(task')) = Cardinality(Busy(task)) - 1
  <2>1. Busy(task') = Busy(task) \ {g} /\ g \in Busy(task)
    BY <1>2 DEF Busy
  <2>2. QED BY <2>1, BusyCounts, FS_RemoveElement
<1>3. QED BY <1>1, <1>2

\* Types, the list included.
Typed == TypeOK /\ list \in Lists /\ \A g \in Guards : task[g] # "idle" => req[g] \in Requests

\* One lookup per interval.
Interval == \/ lookups = 0 /\ lastProbe # "recent"
            \/ lookups = 1 /\ lastProbe = "recent"

\* The requests on their way still fit into the count.
Unlogged ==
  window = "open" =>
    suppressed + Cardinality(Busy(task)) <= MaxSuppressed + Cardinality(Guards)

\* What the process knows of the owner has once come from Tailscale.
OwnersKnown ==
  /\ Owner(list.tailscale) \subseteq owners /\ Owner(tailscale) \subseteq owners
  /\ \A g \in Guards : Owner(found[g]) \subseteq owners

ServedOnly == \A g \in Guards : task[g] = "serve" => Rightly(req[g])

IInv == Typed /\ Interval /\ Unlogged /\ OwnersKnown /\ ServedOnly

LEMMA KnownNone == None \in Identities /\ Owner(None) = {} /\ None \in Known
BY DEF Identities, Owner, Known

LEMMA AllowListTyped ==
  ASSUME NEW self \in Identities, NEW any \in BOOLEAN
  PROVE  /\ AllowList(self, Extra, any) \in Lists
         /\ AllowList(self, Extra, any).tailscale \in Known
         /\ Owner(AllowList(self, Extra, any).tailscale) = Owner(self)
<1>1. AllowList(self, Extra, any) =
        [port |-> OwnPort, tailscale |-> Learnt(self), anyUser |-> any, extra |-> Pages]
  BY DEF AllowList, Pages
<1>2. Learnt(self) \in Known /\ Owner(Learnt(self)) = Owner(self)
  BY LearntIsKnown
<1>3. QED BY <1>1, <1>2 DEF Lists

LEMMA ListFacts ==
  ASSUME NEW l \in Lists
  PROVE  l.tailscale \in Known /\ l.anyUser \in BOOLEAN
         /\ (l.tailscale \in Known <=>
               l.tailscale \in {None} \cup
                 [host : {Lowercase("tailscale")},
                  login : {None, OwnerSelf.login, Lowercase("guest")}])
BY DEF Lists, Known, Logins

LEMMA InitInv == Init => IInv
<1> SUFFICES ASSUME Init PROVE IInv
  OBVIOUS
<1>1. PICK any \in BOOLEAN : list = AllowList(tailscale, Extra, any)
  BY DEF Init
<1>2. /\ tailscale \in Identities /\ list \in Lists /\ list.tailscale \in Known
      /\ Owner(list.tailscale) = Owner(tailscale)
  BY <1>1, AllowListTyped DEF Init
<1>3. Typed
  <2>1. /\ Cardinality(Guards) \in Nat /\ LOG_PER_MINUTE \in Nat /\ MaxSuppressed \in Nat
        /\ MaxChanges \in Nat /\ MaxRestarts \in Nat
    BY AccessConstants, BusyCounts
  <2>2. TypeOK
    BY <1>2, <2>1, KnownNone, ListFacts DEF Init, TypeOK, Steps
  <2>3. QED BY <1>2, <2>2 DEF Typed, Init
<1>4. Interval
  BY DEF Init, Interval
<1>5. Unlogged
  <2>1. Busy(task) = {}
    BY DEF Init, Busy
  <2>2. Cardinality(Busy(task)) = 0
    BY <2>1, FS_EmptySet
  <2>3. QED BY <2>2, BusyCounts, AccessConstants DEF Init, Unlogged
<1>6. OwnersKnown
  BY <1>2, KnownNone DEF Init, OwnersKnown
<1>7. ServedOnly
  BY DEF Init, ServedOnly
<1>8. QED BY <1>3, <1>4, <1>5, <1>6, <1>7 DEF IInv

(***************************************************************************)
(* Steps of one call                                                       *)
(***************************************************************************)
LEMMA TaskTyped == ASSUME IInv
                   PROVE  /\ task \in [Guards -> Steps] /\ req \in [Guards -> Requests \cup {None}]
                          /\ found \in [Guards -> Identities] /\ list \in Lists
                          /\ tailscale \in Identities
                          /\ \A g \in Guards : task[g] # "idle" => req[g] \in Requests
                          /\ suppressed \in Nat /\ logged \in Nat
                          /\ unseen \in Int /\ lost \in Int
                          /\ lookups \in Nat
                          /\ suppressed <= MaxSuppressed + Cardinality(Guards)
BY BusyCounts, AccessConstants DEF IInv, Typed, TypeOK

\* Nothing that Rightly reads changes.
LEMMA RightlySame == ASSUME UNCHANGED <<list, owners>>, NEW name
                     PROVE  Rightly(name)' <=> Rightly(name)
BY DEF Rightly

\* A call goes on; it is served only if its request may pass.
LEMMA GoesOn ==
  ASSUME IInv, NEW g \in Guards, NEW s \in Steps \ {"idle"}, task[g] # "idle", Goto(g, s),
         UNCHANGED <<list, req, found, rejectLog, world>>,
         s = "serve" => Rightly(req[g])
  PROVE  /\ Unlogged' /\ OwnersKnown' /\ ServedOnly'
         /\ task' \in [Guards -> Steps]
         /\ \A h \in Guards : task'[h] # "idle" => req[h] \in Requests
<1>. /\ task'[g] = s /\ \A h \in Guards : h # g => task'[h] = task[h]
  BY TaskTyped DEF Goto
<1>1. Cardinality(Busy(task')) = Cardinality(Busy(task)) /\ task' \in [Guards -> Steps]
  BY TaskTyped, BusyMoves
<1>2. Unlogged'
  BY <1>1 DEF IInv, Unlogged, rejectLog
<1>3. OwnersKnown'
  BY DEF IInv, OwnersKnown, world
<1>4. ServedOnly'
  <2> SUFFICES ASSUME NEW h \in Guards, task'[h] = "serve" PROVE Rightly(req[h])
    BY RightlySame DEF ServedOnly, Rightly, world
  <2>1. QED BY DEF IInv, ServedOnly
<1>5. QED BY <1>1, <1>2, <1>3, <1>4, TaskTyped

LEMMA LooksIncompleteInv == ASSUME IInv, NEW g \in Guards, LooksIncomplete(g) PROVE IInv'
<1>. DEFINE s == IF IdentityIncomplete(list) THEN "interval" ELSE "reject"
<1>1. s \in Steps \ {"idle"} /\ s # "serve" /\ task[g] # "idle" /\ Goto(g, s)
  BY DEF LooksIncomplete, Steps
<1>2. /\ Unlogged' /\ OwnersKnown' /\ ServedOnly' /\ task' \in [Guards -> Steps]
      /\ \A h \in Guards : task'[h] # "idle" => req[h] \in Requests
  BY <1>1, GoesOn DEF LooksIncomplete
<1>3. Typed' /\ Interval'
  BY <1>2 DEF IInv, Typed, TypeOK, Interval, LooksIncomplete, rejectLog, world
<1>4. QED BY <1>2, <1>3 DEF IInv

\* The interval is marked in the same step that decides to look.
LEMMA TakesIntervalInv == ASSUME IInv, NEW g \in Guards, TakesInterval(g) PROVE IInv'
<1>. DEFINE s == IF lastProbe = "recent" THEN "reject" ELSE "probing"
<1>1. s \in Steps \ {"idle"} /\ s # "serve" /\ task[g] # "idle" /\ Goto(g, s)
  BY DEF TakesInterval, Steps
<1>2. /\ Unlogged' /\ OwnersKnown' /\ ServedOnly' /\ task' \in [Guards -> Steps]
      /\ \A h \in Guards : task'[h] # "idle" => req[h] \in Requests
  BY <1>1, GoesOn DEF TakesInterval
<1>3. Interval'
  BY DEF IInv, Interval, TakesInterval
<1>4. lookups' \in 0..Cardinality(Guards)
  <2>1. Cardinality(Guards) # 0 /\ Cardinality(Guards) \in Nat
    BY BusyCounts, AccessConstants, FS_EmptySet
  <2>2. QED BY <1>3, <2>1 DEF Interval
<1>5. Typed'
  BY <1>2, <1>3, <1>4 DEF IInv, Typed, TypeOK, Interval, TakesInterval, rejectLog, world
<1>6. QED BY <1>2, <1>3, <1>5 DEF IInv

LEMMA ProbeReadsInv == ASSUME IInv, NEW g \in Guards, ProbeReads(g) PROVE IInv'
<1>. /\ task[g] # "idle" /\ Goto(g, "probed") /\ task' \in [Guards -> Steps]
     /\ task'[g] = "probed" /\ \A h \in Guards : h # g => task'[h] = task[h]
  BY TaskTyped DEF ProbeReads, Goto, Steps
<1>1. /\ found'[g] = tailscale /\ found' \in [Guards -> Identities]
      /\ \A h \in Guards : h # g => found'[h] = found[h]
  BY TaskTyped DEF ProbeReads
<1>2. Typed'
  BY <1>1 DEF IInv, Typed, TypeOK, ProbeReads, rejectLog, world
<1>3. Unlogged'
  <2>1. Cardinality(Busy(task')) = Cardinality(Busy(task))
    BY TaskTyped, BusyMoves DEF Steps
  <2>2. QED BY <2>1 DEF IInv, Unlogged, ProbeReads, rejectLog
<1>4. OwnersKnown'
  BY <1>1 DEF IInv, OwnersKnown, ProbeReads, world
<1>5. ServedOnly'
  <2> SUFFICES ASSUME NEW h \in Guards, task'[h] = "serve" PROVE Rightly(req[h])
    BY RightlySame DEF ServedOnly, Rightly, ProbeReads, world
  <2>1. QED BY DEF IInv, ServedOnly
<1>6. Interval'
  BY DEF IInv, Interval, ProbeReads
<1>7. QED BY <1>2, <1>3, <1>4, <1>5, <1>6 DEF IInv

\* Another request may be on its way to its handler meanwhile: what it was let through for stays.
LEMMA ProbeReturnsInv == ASSUME IInv, NEW g \in Guards, ProbeReturns(g) PROVE IInv'
<1>. DEFINE s == IF found[g] = None THEN "reject" ELSE "recheck"
<1>1. /\ task[g] # "idle" /\ Goto(g, s) /\ s \in Steps /\ s # "idle" /\ s # "serve"
  BY DEF ProbeReturns, Steps
<1>2. /\ task' \in [Guards -> Steps] /\ task'[g] = s
      /\ \A h \in Guards : h # g => task'[h] = task[h]
  BY <1>1, TaskTyped DEF Goto
<1>3. /\ found'[g] = None /\ found' \in [Guards -> Identities]
      /\ \A h \in Guards : h # g => found'[h] = found[h]
  BY TaskTyped, KnownNone DEF ProbeReturns
<1>4. found[g] \in Identities /\ Learnt(found[g]) \in Known
      /\ Owner(Learnt(found[g])) \subseteq owners
  BY TaskTyped, LearntIsKnown DEF IInv, OwnersKnown
<1>5. /\ list' \in Lists /\ list'.anyUser = list.anyUser
      /\ Owner(list'.tailscale) \subseteq owners
  <2>1. CASE list' = list
    BY <2>1, TaskTyped DEF IInv, OwnersKnown
  <2>2. CASE list' = [list EXCEPT !.tailscale = Learnt(found[g])]
    <3>1. list' \in Lists /\ list'.anyUser = list.anyUser
          /\ list'.tailscale = Learnt(found[g])
      BY <1>4, <2>2, TaskTyped DEF Lists
    <3>2. QED BY <1>4, <3>1
  <2>3. QED BY <2>1, <2>2 DEF ProbeReturns
<1>6. Typed'
  <2>1. list'.tailscale \in
          {None} \cup
            [host : {Lowercase("tailscale")}, login : {None, OwnerSelf.login, Lowercase("guest")}]
    BY <1>5, ListFacts
  <2>2. TypeOK'
    BY <1>2, <1>3, <2>1 DEF IInv, Typed, TypeOK, ProbeReturns, rejectLog, world
  <2>3. QED BY <1>1, <1>2, <1>5, <2>2, TaskTyped DEF Typed, ProbeReturns
<1>7. Unlogged'
  <2>1. Cardinality(Busy(task')) = Cardinality(Busy(task))
    BY <1>1, TaskTyped, BusyMoves
  <2>2. QED BY <2>1 DEF IInv, Unlogged, ProbeReturns, rejectLog
<1>8. OwnersKnown'
  BY <1>3, <1>5, KnownNone DEF IInv, OwnersKnown, ProbeReturns, world
<1>9. ServedOnly'
  <2> SUFFICES ASSUME NEW h \in Guards, task'[h] = "serve" PROVE Rightly(req[h])'
    BY DEF ServedOnly
  <2>1. task[h] = "serve" /\ req'[h] = req[h]
    BY <1>1, <1>2 DEF ProbeReturns
  <2>2. Rightly(req[h])
    BY <2>1 DEF IInv, ServedOnly
  <2>3. QED BY <1>5, <2>1, <2>2 DEF Rightly, ProbeReturns, world
<1>10. Interval'
  BY DEF IInv, Interval, ProbeReturns
<1>11. QED BY <1>6, <1>7, <1>8, <1>9, <1>10 DEF IInv

LEMMA RecheckInv == ASSUME IInv, NEW g \in Guards, Recheck(g) PROVE IInv'
<1>. DEFINE s == IF Verdict(req[g]) = "ok" THEN "serve" ELSE "reject"
<1>1. s \in Steps \ {"idle"} /\ task[g] # "idle" /\ Goto(g, s)
  BY DEF Recheck, Steps
<1>2. s = "serve" => Rightly(req[g])
  BY <1>1, TaskTyped, Passes DEF IInv, OwnersKnown
<1>3. /\ Unlogged' /\ OwnersKnown' /\ ServedOnly' /\ task' \in [Guards -> Steps]
      /\ \A h \in Guards : task'[h] # "idle" => req[h] \in Requests
  BY <1>1, <1>2, GoesOn DEF Recheck
<1>4. Typed' /\ Interval'
  BY <1>3 DEF IInv, Typed, TypeOK, Interval, Recheck, rejectLog, world
<1>5. QED BY <1>3, <1>4 DEF IInv

LEMMA ArriveInv == ASSUME IInv, NEW g \in Guards, NEW r \in Requests, Arrive(g, r) PROVE IInv'
<1>. DEFINE s == CASE Verdict(r) = "ok" -> "serve"
                   [] Verdict(r) \in {"Host", "TailnetUser"} -> "maybe"
                   [] OTHER -> "reject"
<1>1. s \in Steps \ {"idle"} /\ Goto(g, s) /\ (s = "serve" => Verdict(r) = "ok")
  BY DEF Arrive, Steps
<1>2. /\ task' \in [Guards -> Steps] /\ task'[g] = s
      /\ \A h \in Guards : h # g => task'[h] = task[h]
  BY <1>1, TaskTyped DEF Goto
<1>3. /\ req' \in [Guards -> Requests \cup {None}] /\ req'[g] = r
      /\ \A h \in Guards : h # g => req'[h] = req[h]
  BY TaskTyped DEF Arrive
<1>4. Typed'
  <2>1. TypeOK'
    BY <1>2, <1>3 DEF IInv, Typed, TypeOK, Arrive, rejectLog, world
  <2>2. \A h \in Guards : task'[h] # "idle" => req'[h] \in Requests
    BY <1>2, <1>3, TaskTyped
  <2>3. QED BY <2>1, <2>2, TaskTyped DEF Typed, Arrive
<1>5. Unlogged'
  BY BusyCounts, TaskTyped, AccessConstants DEF IInv, Unlogged, Arrive, rejectLog
<1>6. OwnersKnown'
  BY DEF IInv, OwnersKnown, Arrive, world
<1>7. ServedOnly'
  <2> SUFFICES ASSUME NEW h \in Guards, task'[h] = "serve" PROVE Rightly(req'[h])
    BY DEF ServedOnly, Rightly, Arrive, world
  <2>1. CASE h = g
    BY <1>1, <1>2, <1>3, <2>1, TaskTyped, Passes DEF IInv, OwnersKnown
  <2>2. CASE h # g
    BY <1>2, <1>3, <2>2 DEF IInv, ServedOnly
  <2>3. QED BY <2>1, <2>2
<1>8. Interval'
  BY DEF IInv, Interval, Arrive
<1>9. QED BY <1>4, <1>5, <1>6, <1>7, <1>8 DEF IInv

\* A call ends.
LEMMA EndsKept ==
  ASSUME IInv, NEW g \in Guards, task[g] # "idle", Ends(g),
         UNCHANGED <<list, lastProbe, lookups, found, world>>
  PROVE  /\ OwnersKnown' /\ ServedOnly' /\ Interval'
         /\ task' \in [Guards -> Steps] /\ req' \in [Guards -> Requests \cup {None}]
         /\ \A h \in Guards : task'[h] # "idle" => req'[h] \in Requests
         /\ Cardinality(Busy(task')) = Cardinality(Busy(task)) - 1
<1>1. /\ Goto(g, "idle") /\ task' \in [Guards -> Steps] /\ task'[g] = "idle"
      /\ \A h \in Guards : h # g => task'[h] = task[h]
  BY TaskTyped DEF Ends, Goto, Steps
<1>2. /\ req' \in [Guards -> Requests \cup {None}]
      /\ \A h \in Guards : h # g => req'[h] = req[h]
  BY TaskTyped DEF Ends
<1>3. Cardinality(Busy(task')) = Cardinality(Busy(task)) - 1
  BY <1>1, TaskTyped, BusyMoves DEF Steps
<1>4. OwnersKnown'
  BY DEF IInv, OwnersKnown, world
<1>5. ServedOnly'
  <2> SUFFICES ASSUME NEW h \in Guards, task'[h] = "serve" PROVE Rightly(req'[h])
    BY DEF ServedOnly, Rightly, world
  <2>1. h # g
    BY <1>1
  <2>2. QED BY <1>1, <1>2, <2>1 DEF IInv, ServedOnly
<1>6. Interval'
  BY DEF IInv, Interval
<1>7. QED BY <1>1, <1>2, <1>3, <1>4, <1>5, <1>6, TaskTyped

LEMMA ServeInv == ASSUME IInv, NEW g \in Guards, Serve(g) PROVE IInv'
<1>1. /\ OwnersKnown' /\ ServedOnly' /\ Interval'
      /\ task' \in [Guards -> Steps] /\ req' \in [Guards -> Requests \cup {None}]
      /\ \A h \in Guards : task'[h] # "idle" => req'[h] \in Requests
      /\ Cardinality(Busy(task')) = Cardinality(Busy(task)) - 1
  BY EndsKept DEF Serve
<1>2. Typed'
  BY <1>1 DEF IInv, Typed, TypeOK, Serve, rejectLog, world
<1>3. Unlogged'
  BY <1>1, BusyCounts, TaskTyped, AccessConstants DEF IInv, Unlogged, Serve, rejectLog
<1>4. QED BY <1>1, <1>2, <1>3 DEF IInv

\* A call is dropped while its lookup goes on.
LEMMA GivesUpInv == ASSUME IInv, NEW g \in Guards, GivesUp(g) PROVE IInv'
<1>1. /\ task[g] # "idle" /\ Goto(g, "idle") /\ task' \in [Guards -> Steps] /\ task'[g] = "idle"
      /\ \A h \in Guards : h # g => task'[h] = task[h]
  BY TaskTyped DEF GivesUp, Ends, Goto, Steps
<1>2. /\ req' \in [Guards -> Requests \cup {None}]
      /\ \A h \in Guards : h # g => req'[h] = req[h]
  BY TaskTyped DEF GivesUp, Ends
<1>3. /\ found'[g] = None /\ found' \in [Guards -> Identities]
      /\ \A h \in Guards : h # g => found'[h] = found[h]
  BY TaskTyped, KnownNone DEF GivesUp
<1>4. Typed'
  <2>1. TypeOK'
    BY <1>1, <1>2, <1>3 DEF IInv, Typed, TypeOK, GivesUp, rejectLog, world
  <2>2. QED BY <1>1, <1>2, <2>1, TaskTyped DEF Typed, GivesUp
<1>5. Unlogged'
  <2>1. /\ Cardinality(Busy(task')) = Cardinality(Busy(task)) - 1
        /\ Cardinality(Busy(task)) \in Nat
    BY <1>1, TaskTyped, BusyMoves, BusyCounts DEF Steps
  <2>2. UNCHANGED <<window, suppressed>>
    BY DEF GivesUp, rejectLog
  <2>3. QED BY <2>1, <2>2, TaskTyped, BusyCounts, AccessConstants DEF IInv, Unlogged
<1>6. OwnersKnown'
  BY <1>3, KnownNone DEF IInv, OwnersKnown, GivesUp, world
<1>7. ServedOnly'
  <2> SUFFICES ASSUME NEW h \in Guards, task'[h] = "serve" PROVE Rightly(req'[h])
    BY DEF ServedOnly, Rightly, GivesUp, world
  <2>1. QED BY <1>1, <1>2 DEF IInv, ServedOnly
<1>8. Interval'
  BY DEF IInv, Interval, GivesUp
<1>9. QED BY <1>4, <1>5, <1>6, <1>7, <1>8 DEF IInv

\* A new window counts from nothing.
LEMMA RejectInv == ASSUME IInv, NEW g \in Guards, Reject(g) PROVE IInv'
<1>. DEFINE base == IF window = "over" THEN 0 ELSE suppressed
            used == IF window = "over" THEN 0 ELSE logged
<1>1. /\ OwnersKnown' /\ ServedOnly' /\ Interval'
      /\ task' \in [Guards -> Steps] /\ req' \in [Guards -> Requests \cup {None}]
      /\ \A h \in Guards : task'[h] # "idle" => req'[h] \in Requests
      /\ Cardinality(Busy(task')) = Cardinality(Busy(task)) - 1
  BY EndsKept DEF Reject
<1>2. suppressed \in Nat /\ unseen \in Int
  BY TaskTyped
<1>3. /\ window' = "open"
      /\ IF used < LOG_PER_MINUTE
           THEN logged' = used + 1 /\ suppressed' = base
           ELSE logged' = used /\ suppressed' = base + 1
  <2>1. CASE window = "over"
    BY <1>2, <2>1 DEF Reject, NewWindow
  <2>2. CASE window # "over"
    BY <1>2, <2>2 DEF Reject, SameWindow
  <2>3. QED BY <2>1, <2>2
<1>4. base \in Nat /\ used \in 0..LOG_PER_MINUTE
  BY <1>2, AccessConstants DEF IInv, Typed, TypeOK
<1>5. suppressed' + Cardinality(Busy(task')) <= MaxSuppressed + Cardinality(Guards)
  <2>1. /\ Cardinality(Busy(task)) \in Nat /\ Cardinality(Busy(task')) \in Nat
        /\ Cardinality(Guards) \in Nat /\ MaxSuppressed \in Nat
        /\ Cardinality(Busy(task)) <= Cardinality(Guards)
    BY BusyCounts, AccessConstants
  <2>2. window = "over" \/ window = "open"
    BY DEF IInv, Typed, TypeOK
  <2>3. base + Cardinality(Busy(task)) <= MaxSuppressed + Cardinality(Guards)
    BY <1>2, <2>1, <2>2 DEF IInv, Unlogged
  <2>4. suppressed' \in {base, base + 1}
    BY <1>3
  <2>5. QED BY <1>1, <1>4, <2>1, <2>3, <2>4
<1>6. Unlogged'
  BY <1>3, <1>5 DEF Unlogged
<1>7. Typed'
  <2>1. logged' \in 0..LOG_PER_MINUTE
    BY <1>3, <1>4, AccessConstants
  <2>2. suppressed' \in 0..(MaxSuppressed + Cardinality(Guards))
    BY <1>3, <1>4, <1>5, BusyCounts, AccessConstants
  <2>3. unseen' \in Int /\ lost' \in Int
    <3>1. MaxUnseen \in Int /\ \A n \in Int : Capped(n) \in Int
      BY AccessConstants DEF Capped
    <3>2. PICK n \in Int : unseen' = Capped(n)
      BY <1>2 DEF Reject, NewWindow, SameWindow
    <3>3. lost' \in Int
      BY TaskTyped DEF Reject
    <3>4. QED BY <3>1, <3>2, <3>3
  <2>4. TypeOK'
    BY <1>1, <1>3, <2>1, <2>2, <2>3 DEF IInv, Typed, TypeOK, Reject, world
  <2>5. QED BY <1>1, <2>4, TaskTyped DEF Typed, Reject
<1>8. QED BY <1>1, <1>6, <1>7 DEF IInv

(***************************************************************************)
(* Time, Tailscale and the process                                         *)
(***************************************************************************)
LEMMA CallsSame ==
  ASSUME IInv, UNCHANGED <<list, guards, suppressed>>, owners \subseteq owners',
         window' = "open" => window = "open", Owner(tailscale') \subseteq owners'
  PROVE  Unlogged' /\ OwnersKnown' /\ ServedOnly'
<1>1. Unlogged'
  BY DEF IInv, Unlogged, guards
<1>2. OwnersKnown'
  BY DEF IInv, OwnersKnown, guards
<1>3. ServedOnly'
  <2> SUFFICES ASSUME NEW h \in Guards, task'[h] = "serve" PROVE Rightly(req[h])'
    BY DEF ServedOnly, guards
  <2>1. Rightly(req[h])
    BY DEF IInv, ServedOnly, guards
  <2>2. QED BY <2>1 DEF Rightly, guards
<1>4. QED BY <1>1, <1>2, <1>3

LEMMA TimeInv == ASSUME IInv, IntervalPasses \/ MinutePasses \/ UNCHANGED vars PROVE IInv'
<1>1. Unlogged' /\ OwnersKnown' /\ ServedOnly'
  <2>1. /\ UNCHANGED <<list, guards, suppressed, owners, tailscale>>
        /\ window' = "open" => window = "open"
    BY DEF IntervalPasses, MinutePasses, vars, rejectLog, world
  <2>2. QED BY <2>1, CallsSame DEF IInv, OwnersKnown
<1>2. Interval'
  BY DEF IInv, Interval, IntervalPasses, MinutePasses, vars
<1>3. Typed'
  <2>1. 0 \in 0..Cardinality(Guards)
    BY BusyCounts
  <2>2. CASE IntervalPasses
    BY <2>1, <2>2 DEF IInv, Typed, TypeOK, IntervalPasses, guards, rejectLog, world
  <2>3. CASE MinutePasses
    BY <2>3 DEF IInv, Typed, TypeOK, MinutePasses, guards, world
  <2>4. CASE UNCHANGED vars
    BY <2>4 DEF IInv, Typed, TypeOK, vars, guards, rejectLog, world
  <2>5. QED BY <2>2, <2>3, <2>4
<1>4. QED BY <1>1, <1>2, <1>3 DEF IInv

\* Who has once been the owner stays known as one: the ghost only grows.
LEMMA TailscaleChangesInv == ASSUME IInv, TailscaleChanges PROVE IInv'
<1>1. Unlogged' /\ OwnersKnown' /\ ServedOnly'
  <2>1. /\ UNCHANGED <<list, guards, suppressed, window>>
        /\ owners' = owners \cup Owner(tailscale')
    BY DEF TailscaleChanges, rejectLog
  <2>2. QED BY <2>1, CallsSame
<1>2. changes' \in 0..MaxChanges
  BY AccessConstants DEF IInv, Typed, TypeOK, TailscaleChanges
<1>3. Typed'
  BY <1>2 DEF IInv, Typed, TypeOK, TailscaleChanges, guards, rejectLog
<1>4. Interval'
  BY DEF IInv, Interval, TailscaleChanges
<1>5. QED BY <1>1, <1>3, <1>4 DEF IInv

LEMMA RestartInv == ASSUME IInv, Restart PROVE IInv'
<1>1. tailscale \in Identities /\ list.anyUser \in BOOLEAN /\ Owner(tailscale) \subseteq owners
  BY TaskTyped, ListFacts DEF IInv, OwnersKnown
<1>2. list' \in Lists /\ list'.tailscale \in Known /\ Owner(list'.tailscale) = Owner(tailscale)
  BY <1>1, AllowListTyped DEF Restart, Fresh
<1>3. Typed'
  <2>1. /\ Cardinality(Guards) \in Nat /\ LOG_PER_MINUTE \in Nat /\ MaxSuppressed \in Nat
        /\ restarts' \in 0..MaxRestarts
    BY AccessConstants, BusyCounts DEF IInv, Typed, TypeOK, Restart
  <2>2. list'.tailscale \in
          {None} \cup
            [host : {Lowercase("tailscale")}, login : {None, OwnerSelf.login, Lowercase("guest")}]
    BY <1>2, ListFacts
  <2>3. unseen' \in Int /\ lost' \in Int
    BY TaskTyped DEF Restart, Fresh
  <2>4. TypeOK'
    BY <2>1, <2>2, <2>3, KnownNone DEF IInv, Typed, TypeOK, Restart, Fresh, Steps
  <2>5. QED BY <1>2, <2>4 DEF Typed, Restart, Fresh
<1>4. Interval' /\ ServedOnly'
  BY DEF Restart, Fresh, Interval, ServedOnly
<1>5. Unlogged'
  <2>1. Busy(task') = {}
    BY DEF Restart, Fresh, Busy
  <2>2. Cardinality(Busy(task')) = 0
    BY <2>1, FS_EmptySet
  <2>3. QED BY <2>2, BusyCounts, AccessConstants DEF Restart, Fresh, Unlogged
<1>6. OwnersKnown'
  BY <1>1, <1>2, KnownNone DEF Restart, Fresh, OwnersKnown
<1>7. QED BY <1>3, <1>4, <1>5, <1>6 DEF IInv

LEMMA NextInv == IInv /\ [Next]_vars => IInv'
<1> SUFFICES ASSUME IInv, [Next]_vars PROVE IInv'
  OBVIOUS
<1>1. ASSUME NEW g \in Guards, GuardStep(g) PROVE IInv'
  BY <1>1, LooksIncompleteInv, TakesIntervalInv, ProbeReadsInv, ProbeReturnsInv, RecheckInv,
     ServeInv, RejectInv DEF GuardStep
<1>2. ASSUME NEW g \in Guards, NEW r \in Requests, Arrive(g, r) PROVE IInv'
  BY <1>2, ArriveInv
<1>3. QED
  BY <1>1, <1>2, GivesUpInv, TimeInv, TailscaleChangesInv, RestartInv DEF Next

LEMMA Inductive == Spec => []IInv
BY InitInv, NextInv, PTL DEF Spec

(***************************************************************************)
(* The theorems                                                            *)
(***************************************************************************)

\* A request that came through `tailscale serve` is served only to a user Tailscale has named as
\* the owner of the PC, whatever lookups, restarts and changes of the identity come in between;
\* Funnel and foreign names never get through (access.rs:14-20, 23-29).
THEOREM AlwaysServedRightly == Spec => []ServedRightly
<1>1. IInv => ServedRightly
  BY DEF IInv, Typed, ServedOnly, Rightly, ServedRightly
<1>2. QED BY <1>1, Inductive, PTL

\* However many requests are rejected at once, `tailscale status` is started at most once per
\* interval (access.rs:37-39, 382).
THEOREM AlwaysOneLookup == Spec => []OneLookup
<1>1. IInv => OneLookup
  BY DEF IInv, Interval, OneLookup
<1>2. QED BY <1>1, Inductive, PTL

(***************************************************************************)
(* The rules are the documented ones, for every text of every header       *)
(***************************************************************************)
LEMMA Spellings ==
  ASSUME NEW h \in Names \cup {Malformed}, NEW n \in Hosts \cup {"owner", "guest"}
  PROVE  h \in Spelled(n) <=> h \in Names /\ h.name = n
<1>1. Spelled(n) \subseteq Names
  BY DEF Spelled, Names
<1>2. Malformed \notin Spelled(n)
  BY <1>1, RulesConstants
<1>3. ASSUME h \in Names PROVE h \in Spelled(n) <=> h.name = n
  BY <1>3 DEF Spelled, Names
<1>4. QED BY <1>2, <1>3

LEMMA SameName ==
  ASSUME NEW n, NEW m
  PROVE  Lowercase(n) = Lowercase(m) <=> n = m
<1>1. Lowercase(n).name = n /\ Lowercase(m).name = m
  BY DEF Lowercase
<1>2. QED BY <1>1

LEMMA AddressNames ==
  ASSUME NEW a \in Origins
  PROVE  /\ a.host \in Names /\ a.host.name \in Hosts \cup {"owner", "guest"}
         /\ a.port \in Nat /\ a.port # None /\ a.port # Malformed
         /\ a.scheme \in {"http", "https"} /\ DefaultPort(a.scheme) \in Nat /\ a # None
BY RulesConstants, DefaultPorts DEF Origins, Names

LEMMA HostRule ==
  ASSUME NEW l \in Lists, NEW t \in HostTexts, t.port \in {None, Malformed} \cup Ports
  PROVE  HostOk(l, t) <=> t \in LoopbackForms \cup UNION {HostForms(a) : a \in Addresses(l)}
<1>. DEFINE at == SplitHostPort(t)
<1>1. t.host \in Names \cup {Malformed} /\ t.port \in PortTexts
  BY DEF HostTexts
<1>2. /\ at = None <=> t.host = Malformed \/ t.port = Malformed
      /\ at # None => /\ t.host \in Names /\ at.host = Lowercase(t.host.name)
                      /\ at.port = t.port
  BY <1>1, Splits
<1>3. t.port # Malformed <=> t.port \in {None} \cup Ports
  BY RulesConstants DEF Ports
<1>4. t \in LoopbackForms <=> at # None /\ at.host = Lowercase("loopback")
  <2>1. t \in LoopbackForms <=> t.host \in Spelled("loopback") /\ t.port \in {None} \cup Ports
    BY DEF LoopbackForms, HostTexts
  <2>2. t.host \in Spelled("loopback") <=> t.host \in Names /\ t.host.name = "loopback"
    BY <1>1, Spellings DEF Hosts
  <2>3. QED BY <1>2, <1>3, <2>1, <2>2, SameName, RulesConstants
<1>5. ASSUME NEW a \in Addresses(l)
      PROVE  t \in HostForms(a) <=> at # None /\ a.host = at.host /\ at.port \in {None, a.port}
  <2>1. a \in Origins /\ a.host = Lowercase(a.host.name)
    BY ListAddresses
  <2>2. a.host.name \in Hosts \cup {"owner", "guest"} /\ a.port # Malformed
    BY <2>1, AddressNames
  <2>3. t \in HostForms(a) <=> t.host \in Spelled(a.host.name) /\ t.port \in {None, a.port}
    BY DEF HostForms, HostTexts
  <2>4. t.host \in Spelled(a.host.name) <=> t.host \in Names /\ t.host.name = a.host.name
    BY <1>1, <2>2, Spellings
  <2>5. t.host.name = a.host.name <=> Lowercase(t.host.name) = a.host
    BY <2>1, SameName
  <2>6. QED BY <1>2, <2>2, <2>3, <2>4, <2>5, RulesConstants
<1>6. QED BY <1>4, <1>5 DEF HostOk, IsLoopback

\* The texts that name an address are those that parse to it.
LEMMA FormsParse ==
  ASSUME NEW t \in OriginTexts, NEW a \in Origins, a.host = Lowercase(a.host.name)
  PROVE  t \in OriginForms(a) <=> ParseOrigin(t) = a
<1>. DEFINE o == ParseOrigin(t)
<1>1. /\ t.host \in Names \cup {Malformed} /\ t.port \in PortTexts
      /\ t.scheme \in {"http", "https", "other"} /\ t.rest \in {"none", "slash", "path", "user"}
  BY DEF OriginTexts
<1>2. /\ o # None <=> /\ t.scheme \in {"http", "https"} /\ t.rest \in {"none", "slash"}
                      /\ t.host # Malformed /\ t.port # Malformed
      /\ o # None =>
           /\ o \in Origins /\ o.scheme = t.scheme
           /\ t.host \in Names /\ o.host = Lowercase(t.host.name)
           /\ o.port = IF t.port = None THEN DefaultPort(t.scheme) ELSE t.port
  BY Parses
<1>3. /\ a.host \in Names /\ a.host.name \in Hosts \cup {"owner", "guest"}
      /\ a.port # None /\ a.port # Malformed /\ a.scheme \in {"http", "https"} /\ a # None
  BY AddressNames
<1>4. t \in OriginForms(a) <=>
        /\ t.scheme = a.scheme /\ t.host \in Spelled(a.host.name) /\ t.rest \in {"none", "slash"}
        /\ t.port = a.port \/ (t.port = None /\ a.port = DefaultPort(a.scheme))
  BY DEF OriginForms, OriginTexts
<1>5. t.host \in Spelled(a.host.name) <=> t.host \in Names /\ t.host.name = a.host.name
  BY <1>1, <1>3, Spellings
<1>6. t.host.name = a.host.name <=> Lowercase(t.host.name) = a.host
  BY SameName
<1>7. ASSUME t \in OriginForms(a) PROVE o = a
  <2>1. o # None
    BY <1>2, <1>3, <1>4, <1>5, <1>7, RulesConstants
  <2>2. o \in Origins /\ o.scheme = a.scheme /\ o.host = a.host
    BY <1>2, <1>4, <1>5, <1>6, <1>7, <2>1
  <2>3. o.port = a.port
    BY <1>2, <1>3, <1>4, <1>7, <2>1
  <2>4. QED BY <2>2, <2>3 DEF Origins
<1>8. ASSUME o = a PROVE t \in OriginForms(a)
  <2>1. o # None
    BY <1>3, <1>8
  <2>2. t.scheme = a.scheme /\ t.rest \in {"none", "slash"} /\ t.host \in Spelled(a.host.name)
    BY <1>2, <1>5, <1>6, <1>8, <2>1
  <2>3. t.port = a.port \/ (t.port = None /\ a.port = DefaultPort(a.scheme))
    BY <1>2, <1>8, <2>1
  <2>4. QED BY <1>4, <2>2, <2>3
<1>9. QED BY <1>7, <1>8

LEMMA OriginRule ==
  ASSUME NEW l \in Lists, NEW t \in OriginTexts
  PROVE  OriginOk(l, t)
           <=> t \in UNION {OriginForms(a) : a \in ForeignPages(l) \cup OwnPages(l)}
<1>. DEFINE o == ParseOrigin(t)
<1>1. o # None => o \in Origins
  BY Parses
<1>2. l.port = OwnPort /\ OwnPort \in Nat
  BY RulesConstants DEF Lists
<1>3. \A a \in ForeignPages(l) : a \in Origins /\ a.host = Lowercase(a.host.name)
  BY ListAddresses DEF ForeignPages
<1>4. \A a \in OwnPages(l) : /\ a \in Origins /\ a.host = Lowercase(a.host.name)
                             /\ a.host = Lowercase("loopback") /\ a.port = l.port
  <2>1. Lowercase("loopback") \in Names /\ Lowercase("loopback").name = "loopback"
    BY LowercaseName DEF Hosts
  <2>2. QED BY <1>2, <2>1 DEF OwnPages, Origins
<1>5. t \in UNION {OriginForms(a) : a \in ForeignPages(l) \cup OwnPages(l)}
        <=> o \in ForeignPages(l) \cup OwnPages(l)
  BY <1>3, <1>4, FormsParse
<1>6. CASE o = None
  <2>1. None \notin ForeignPages(l) /\ None \notin OwnPages(l)
    BY <1>3, <1>4, RulesConstants
  <2>2. QED BY <1>5, <1>6, <2>1 DEF OriginOk
<1>7. CASE o # None /\ IsLoopback(o.host)
  <2>1. o \in OwnPages(l) <=> o.port = l.port
    BY <1>1, <1>7 DEF OwnPages, Origins, IsLoopback
  <2>2. o \notin ForeignPages(l)
    BY <1>7 DEF ForeignPages
  <2>3. QED BY <1>5, <1>7, <2>1, <2>2 DEF OriginOk
<1>8. CASE o # None /\ ~IsLoopback(o.host)
  <2>1. o \notin OwnPages(l)
    BY <1>4, <1>8 DEF IsLoopback
  <2>2. o \in ForeignPages(l) <=> o \in Addresses(l)
    BY <1>8 DEF ForeignPages
  <2>3. QED BY <1>5, <1>8, <2>1, <2>2 DEF OriginOk
<1>9. QED BY <1>6, <1>7, <1>8

LEMMA LoginRule ==
  ASSUME NEW user \in Names, NEW t \in LoginTexts
  PROVE  LoginIs(user, t) <=> t \in LoginForms(user)
<1>1. /\ t.user \in Names /\ t.coding \in {"plain", "q", "broken"} /\ t.user # None
      /\ t \notin {Absent, Unreadable}
  BY RulesConstants DEF LoginTexts
<1>2. t \in LoginForms(user) <=> t.user \in Spelled(user.name) /\ t.coding \in {"plain", "q"}
  BY DEF LoginForms, LoginTexts
<1>3. user.name \in Hosts \cup {"owner", "guest"}
  BY DEF Names
<1>4. t.user \in Spelled(user.name) <=> t.user.name = user.name
  BY <1>1, <1>3, Spellings
<1>5. Lower(t.user) = Lowercase(t.user.name) /\ Lower(user) = Lowercase(user.name)
  BY <1>1, LowerName
<1>6. Lower(t.user) = Lower(user) <=> t.user.name = user.name
  BY <1>5, SameName
<1>7. QED BY <1>1, <1>2, <1>4, <1>6 DEF LoginIs, DecodeQWords

\* Every text in every header at once.
AllRequests ==
  [funnel : {Absent, Unreadable, "yes"},
   host : {t \in HostTexts : t.port \in {None, Malformed} \cup Ports} \cup {Absent, Unreadable},
   origin : OriginTexts \cup {Absent, Unreadable},
   fetchSite : {Absent, Unreadable} \cup Sites,
   forwarded : {Absent, Unreadable, "yes"},
   login : LoginTexts \cup {Absent, Unreadable}]

LEMMA RulesMatch ==
  ASSUME NEW l \in Lists, NEW r \in AllRequests
  PROVE  (Check(l, r) = "ok") <=> AsDocumented(l, r)
<1>1. /\ r.host \in {t \in HostTexts : t.port \in {None, Malformed} \cup Ports}
                      \cup {Absent, Unreadable}
      /\ r.origin \in OriginTexts \cup {Absent, Unreadable}
      /\ r.login \in LoginTexts \cup {Absent, Unreadable}
  BY DEF AllRequests
<1>2. r.host \in LoopbackForms \cup UNION {HostForms(a) : a \in Addresses(l)}
        <=> r.host \notin {Absent, Unreadable} /\ HostOk(l, r.host)
  <2>1. CASE r.host \in {Absent, Unreadable}
    <3>1. LoopbackForms \subseteq HostTexts
      <4>1. Spelled("loopback") \subseteq Names
        BY DEF Spelled, Names, Hosts
      <4>2. {None} \cup Ports \subseteq PortTexts
        BY RulesConstants DEF Ports, PortTexts
      <4>3. QED BY <4>1, <4>2 DEF LoopbackForms, HostTexts
    <3>2. ASSUME NEW a \in Addresses(l) PROVE HostForms(a) \subseteq HostTexts
      <4>1. a.host.name \in Hosts \cup {"owner", "guest"} /\ a.port \in Nat
        BY ListAddresses, AddressNames
      <4>2. Spelled(a.host.name) \subseteq Names
        BY <4>1 DEF Spelled, Names
      <4>3. QED BY <4>1, <4>2 DEF HostForms, HostTexts, PortTexts
    <3>3. r.host \notin HostTexts
      BY <2>1, RulesConstants
    <3>4. QED BY <2>1, <3>1, <3>2, <3>3
  <2>2. CASE r.host \notin {Absent, Unreadable}
    BY <1>1, <2>2, HostRule
  <2>3. QED BY <2>1, <2>2
<1>3. r.origin \in UNION {OriginForms(a) : a \in ForeignPages(l) \cup OwnPages(l)}
        <=> r.origin \notin {Absent, Unreadable} /\ OriginOk(l, r.origin)
  <2>1. CASE r.origin \in {Absent, Unreadable}
    <3>1. ASSUME NEW a \in ForeignPages(l) \cup OwnPages(l) PROVE OriginForms(a) \subseteq OriginTexts
      <4>1. a \in Origins
        <5>1. CASE a \in ForeignPages(l)
          BY <5>1, ListAddresses DEF ForeignPages
        <5>2. CASE a \in OwnPages(l)
          <6>1. Lowercase("loopback") \in Names
            BY LowercaseName DEF Hosts
          <6>2. l.port \in Nat
            BY RulesConstants DEF Lists
          <6>3. QED BY <5>2, <6>1, <6>2 DEF OwnPages, Origins
        <5>3. QED BY <5>1, <5>2
      <4>2. a.host.name \in Hosts \cup {"owner", "guest"} /\ a.port \in Nat
            /\ a.scheme \in {"http", "https"}
        BY <4>1, AddressNames
      <4>3. Spelled(a.host.name) \subseteq Names
        BY <4>2 DEF Spelled, Names
      <4>4. QED BY <4>2, <4>3 DEF OriginForms, OriginTexts, PortTexts
    <3>2. r.origin \notin OriginTexts
      BY <2>1, RulesConstants
    <3>3. QED BY <2>1, <3>1, <3>2
  <2>2. CASE r.origin \notin {Absent, Unreadable}
    BY <1>1, <2>2, OriginRule
  <2>3. QED BY <2>1, <2>2
<1>4. OwnerOf(l) # None => (LoginIs(OwnerOf(l), r.login) <=> r.login \in LoginForms(OwnerOf(l)))
  <2> SUFFICES ASSUME OwnerOf(l) # None
               PROVE  LoginIs(OwnerOf(l), r.login) <=> r.login \in LoginForms(OwnerOf(l))
    OBVIOUS
  <2>1. OwnerOf(l) \in Names
    BY OwnerNames
  <2>2. CASE r.login \in LoginTexts
    BY <2>1, <2>2, LoginRule
  <2>3. CASE r.login \in {Absent, Unreadable}
    <3>1. Spelled(OwnerOf(l).name) \subseteq Names
      BY <2>1 DEF Spelled, Names
    <3>2. LoginForms(OwnerOf(l)) \subseteq LoginTexts
      BY <3>1 DEF LoginForms, LoginTexts
    <3>3. r.login \notin LoginTexts
      BY <2>3, RulesConstants
    <3>4. QED BY <2>3, <3>2, <3>3 DEF LoginIs
  <2>4. QED BY <1>1, <2>2, <2>3
<1>5. (Check(l, r) = "ok") <=>
        /\ r.funnel = Absent /\ r.fetchSite \in {Absent, "none", "same-origin"}
        /\ r.host \notin {Absent, Unreadable} /\ HostOk(l, r.host)
        /\ r.origin = Absent \/ (r.origin # Unreadable /\ OriginOk(l, r.origin))
        /\ r.forwarded = Absent \/ TailnetUserOk(l, r.login)
  <2>1. CASE r.funnel # Absent \/ r.fetchSite \notin {Absent, "none", "same-origin"}
    BY <2>1 DEF Check
  <2>2. CASE r.funnel = Absent /\ r.fetchSite \in {Absent, "none", "same-origin"}
    <3>1. Check(l, r) =
            IF r.host = Absent THEN "MissingHost"
            ELSE IF r.host = Unreadable \/ ~HostOk(l, r.host) THEN "Host"
            ELSE IF r.origin = Unreadable \/ (r.origin # Absent /\ ~OriginOk(l, r.origin)) THEN "Origin"
            ELSE IF r.forwarded # Absent /\ ~TailnetUserOk(l, r.login) THEN "TailnetUser"
            ELSE "ok"
      BY <2>2 DEF Check
    <3>2. Absent # Unreadable
      BY RulesConstants
    <3>3. CASE r.host = Absent \/ r.host = Unreadable \/ ~HostOk(l, r.host)
      BY <3>1, <3>3
    <3>4. CASE r.host # Absent /\ r.host # Unreadable /\ HostOk(l, r.host)
      <4>1. CASE r.origin = Unreadable \/ (r.origin # Absent /\ ~OriginOk(l, r.origin))
        <5>1. Check(l, r) = "Origin"
          BY <3>1, <3>4, <4>1
        <5>2. QED BY <3>2, <4>1, <5>1
      <4>2. CASE r.origin = Absent \/ (r.origin # Unreadable /\ OriginOk(l, r.origin))
        <5>1. Check(l, r) = IF r.forwarded # Absent /\ ~TailnetUserOk(l, r.login)
                              THEN "TailnetUser" ELSE "ok"
          BY <3>1, <3>2, <3>4, <4>2
        <5>2. QED BY <2>2, <3>4, <4>2, <5>1
      <4>3. QED BY <4>1, <4>2
    <3>5. QED BY <3>3, <3>4
  <2>3. QED BY <2>1, <2>2
<1>6. QED BY <1>2, <1>3, <1>4, <1>5, RulesConstants DEF AsDocumented, TailnetUserOk

\* The requests the run tries are among them.
LEMMA PlainRequests ==
  ASSUME NEW name \in {"owner", "local"}
  PROVE  RequestOf(name) \in AllRequests
<1>. DEFINE local == [host |-> Lowercase("loopback"), port |-> OwnPort]
<1>1. TailscaleHost \in HostTexts /\ TailscaleHost.port = None
  <2>1. Lowercase("tailscale") \in Names
    BY LowercaseName DEF Hosts
  <2>2. QED BY <2>1 DEF TailscaleHost, HostTexts, PortTexts
<1>2. local \in HostTexts /\ local.port \in Ports
  <2>1. Lowercase("loopback") \in Names /\ OwnPort \in Nat
    BY LowercaseName, RulesConstants DEF Hosts
  <2>2. QED BY <2>1 DEF HostTexts, PortTexts, Ports
<1>3. TailscalePage \in OriginTexts
  <2>1. Lowercase("tailscale") \in Names
    BY LowercaseName DEF Hosts
  <2>2. QED BY <2>1 DEF TailscalePage, OriginTexts, PortTexts
<1>4. LoginOf("owner") \in LoginTexts
  <2>1. Lowercase("owner") \in Names
    BY LowercaseName
  <2>2. QED BY <2>1 DEF LoginOf, LoginTexts
<1>5. CASE name = "owner"
  <2>1. RequestOf(name) = Request(TailscaleHost, TailscalePage, "same-origin", "yes", LoginOf("owner"))
    BY <1>5 DEF RequestOf, ServedPage
  <2>2. QED BY <1>1, <1>3, <1>4, <2>1 DEF AllRequests, Request, Sites
<1>6. CASE name = "local"
  <2>1. RequestOf(name) = Request(local, Absent, Absent, Absent, Absent)
    BY <1>6 DEF RequestOf
  <2>2. QED BY <1>2, <2>1 DEF AllRequests, Request
<1>7. QED BY <1>5, <1>6

LEMMA TriedRequests == AnyRequest \subseteq AllRequests
<1> SUFFICES ASSUME NEW x \in AnyRequest PROVE x \in AllRequests
  OBVIOUS
<1>1. PICK name \in {"owner", "local"} :
        LET r == RequestOf(name) IN
        \/ \E h \in SomeHosts \cup {Absent, Unreadable} : x = [r EXCEPT !.host = h]
        \/ \E o \in SomeOrigins \cup {Absent, Unreadable} : x = [r EXCEPT !.origin = o]
        \/ \E l \in SomeLogins \cup {Absent, Unreadable} : x = [r EXCEPT !.login = l]
        \/ \E s \in {Absent, Unreadable} \cup Sites : x = [r EXCEPT !.fetchSite = s]
        \/ \E f \in {Absent, Unreadable, "yes"} : x = [r EXCEPT !.funnel = f]
        \/ \E f \in {Absent, Unreadable, "yes"} : x = [r EXCEPT !.forwarded = f]
  BY DEF AnyRequest
<1>. DEFINE r == RequestOf(name)
<1>2. r \in AllRequests
  BY PlainRequests
<1>3. SomeNames \subseteq Names \cup {Malformed} /\ SomePorts \subseteq PortTexts
  BY RulesConstants DEF SomeNames, Names, SomePorts, Ports, PortTexts
<1>4. /\ SomeHosts \subseteq {t \in HostTexts : t.port \in {None, Malformed} \cup Ports}
      /\ SomeOrigins \subseteq OriginTexts
  <2>1. ASSUME NEW t \in SomeHosts PROVE t \in HostTexts /\ t.port \in {None, Malformed} \cup Ports
    BY <1>3 DEF SomeHosts, HostTexts, SomePorts
  <2>2. ASSUME NEW t \in SomeOrigins PROVE t \in OriginTexts
    BY <1>3 DEF SomeOrigins, OriginTexts
  <2>3. QED BY <2>1, <2>2
<1>5. SomeLogins \subseteq LoginTexts
  BY DEF SomeLogins, LoginTexts, Spelled, Names
<1>6. CASE \E h \in SomeHosts \cup {Absent, Unreadable} : x = [r EXCEPT !.host = h]
  BY <1>2, <1>4, <1>6 DEF AllRequests
<1>7. CASE \E o \in SomeOrigins \cup {Absent, Unreadable} : x = [r EXCEPT !.origin = o]
  BY <1>2, <1>4, <1>7 DEF AllRequests
<1>8. CASE \E l \in SomeLogins \cup {Absent, Unreadable} : x = [r EXCEPT !.login = l]
  BY <1>2, <1>5, <1>8 DEF AllRequests
<1>9. CASE \/ \E s \in {Absent, Unreadable} \cup Sites : x = [r EXCEPT !.fetchSite = s]
           \/ \E f \in {Absent, Unreadable, "yes"} : x = [r EXCEPT !.funnel = f]
           \/ \E f \in {Absent, Unreadable, "yes"} : x = [r EXCEPT !.forwarded = f]
  BY <1>2, <1>9 DEF AllRequests
<1>10. QED BY <1>1, <1>6, <1>7, <1>8, <1>9

\* At every moment, whatever the list has learnt by then, the headers that pass are exactly those
\* the head of access.rs allows, for every combination of texts (access.rs:23-29).
THEOREM RulesAlwaysMatch ==
  Spec => [](\A r \in AllRequests : (Check(list, r) = "ok") <=> AsDocumented(list, r))
<1>1. IInv => \A r \in AllRequests : (Check(list, r) = "ok") <=> AsDocumented(list, r)
  BY RulesMatch DEF IInv, Typed
<1>2. QED BY <1>1, Inductive, PTL

\* The same for the requests the run tries.
THEOREM AlwaysAsDocumented == Spec => []RulesAsDocumented
<1>1. IInv => RulesAsDocumented
  BY RulesMatch, TriedRequests DEF IInv, Typed, RulesAsDocumented
<1>2. QED BY <1>1, Inductive, PTL
=============================================================================
