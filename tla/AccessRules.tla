----------------------------- MODULE AccessRules -----------------------------
(***************************************************************************)
(* Which requests may pass (src/src/access.rs, AllowList::check): the      *)
(* rules, the texts they read and the addresses they compare.              *)
(*                                                                         *)
(* A name is a record of the name and of the way it is spelled; the text   *)
(* of a header is a record of its parts, before it is parsed.              *)
(***************************************************************************)
EXTENDS Naturals

CONSTANTS
  None,       \* no value, no port in a text, nothing known
  Absent,     \* the request does not have the header
  Unreadable, \* the header is not valid UTF-8
  Malformed,  \* a part of a text that cannot be parsed
  OwnPort,    \* --port
  OtherPort,  \* a port nobody configured
  OtherNames  \* further names of hosts: those in --allow-origin, say

\* Names, and the texts of the headers that hold one.
Hosts == {"loopback", "tailscale", "foreign"} \cup OtherNames
Names == [name : Hosts \cup {"owner", "guest"}, lower : BOOLEAN]
Ports == {80, 443, OwnPort, OtherPort}
PortTexts == Nat \cup {None, Malformed}
HostTexts == [host : Names \cup {Malformed}, port : PortTexts]
OriginTexts ==
  [scheme : {"http", "https", "other"}, host : Names \cup {Malformed}, port : PortTexts,
   rest : {"none", "slash", "path", "user"}]
LoginTexts == [user : Names, coding : {"plain", "q", "broken"}]

\* What parsing makes of an address.
HostPorts == [host : Names, port : Nat \cup {None}]
Origins == [scheme : {"http", "https"}, host : Names, port : Nat]

ASSUME RulesConstants ==
  /\ OwnPort \in Nat \ {80, 443} /\ OtherPort \in Nat \ {80, 443} /\ OwnPort # OtherPort
  /\ None \notin Nat /\ None \notin Names /\ None \notin HostPorts /\ None \notin Origins
  /\ Malformed \notin Nat /\ Malformed \notin Names /\ None # Malformed
  /\ \A absent \in {Absent, Unreadable} :
       /\ absent \notin HostTexts /\ absent \notin OriginTexts /\ absent \notin LoginTexts
       /\ absent \notin {"none", "same-origin"}
  /\ Absent # Unreadable

Spelled(name) == [name : {name}, lower : BOOLEAN]
Lower(s) == [s EXCEPT !.lower = TRUE]
Lowercase(name) == [name |-> name, lower |-> TRUE]

\* 127.0.0.1, localhost and [::1] are one name here.
IsLoopback(host) == host = Lowercase("loopback")

(***************************************************************************)
(* Parsing                                                                 *)
(***************************************************************************)
DefaultPort(scheme) ==
  CASE scheme = "http" -> 80 [] scheme = "https" -> 443 [] OTHER -> None

\* A text without a host or with a port that is no u16 has no meaning.
SplitHostPort(text) ==
  IF Malformed \in {text.host, text.port}
    THEN None
    ELSE [host |-> Lower(text.host), port |-> text.port]

\* Mutant of PortOf: an origin without a port keeps none.
PortOf_Literal(port, default) == port

PortOf(port, default) == IF port = None THEN default ELSE port

\* Slashes at the end are cut off; a path, a user and other schemes ("null" has none) are errors.
ParseOrigin(text) ==
  LET at == SplitHostPort(text)
      default == DefaultPort(text.scheme)
  IN IF default = None \/ at = None \/ text.rest \in {"path", "user"}
       THEN None
       ELSE [scheme |-> text.scheme, host |-> at.host, port |-> PortOf(at.port, default)]

\* Plain text stays as it is, Q-encoded words are decoded, anything broken has no meaning.
DecodeQWords(text) == IF text.coding = "broken" THEN None ELSE text.user

(***************************************************************************)
(* The allow list                                                          *)
(***************************************************************************)

\* What is stored of the PC's own Tailscale identity.
Learnt(self) == IF self = None THEN None ELSE [self EXCEPT !.host = Lower(@)]

AllowList(self, extra, anyUser) ==
  [port |-> OwnPort, tailscale |-> Learnt(self), anyUser |-> anyUser,
   extra |-> {ParseOrigin(text) : text \in extra} \ {None}]

TailscaleOrigin(list) ==
  IF list.tailscale = None
    THEN {}
    ELSE {[scheme |-> "https", host |-> list.tailscale.host, port |-> 443]}

Addresses(list) == TailscaleOrigin(list) \cup list.extra

\* Behind `tailscale serve` the scheme is not visible: without a port every address matches.
HostOk(list, text) ==
  LET at == SplitHostPort(text) IN
  /\ at # None
  /\ \/ IsLoopback(at.host)
     \/ \E a \in Addresses(list) : a.host = at.host /\ at.port \in {None, a.port}

OriginOk(list, text) ==
  LET o == ParseOrigin(text) IN
  /\ o # None
  /\ IF IsLoopback(o.host) THEN o.port = list.port ELSE o \in Addresses(list)

OwnerOf(list) == IF list.tailscale = None THEN None ELSE list.tailscale.login

\* Mutant of IdentityIncomplete: the name of the PC is enough.
IdentityIncomplete_NameKnown(list) == list.tailscale = None

\* A lookup could bring the name of the PC or its owner.
IdentityIncomplete(list) == list.tailscale = None \/ list.tailscale.login = None

LoginIs(owner, login) ==
  /\ login \notin {Absent, Unreadable}
  /\ DecodeQWords(login) # None
  /\ Lower(DecodeQWords(login)) = Lower(owner)

\* Mutant of TailnetUserOk: while the owner is unknown, nobody is turned away.
TailnetUserOk_WhileUnknown(list, login) ==
  \/ list.anyUser
  \/ OwnerOf(list) = None
  \/ LoginIs(OwnerOf(list), login)

TailnetUserOk(list, login) ==
  \/ list.anyUser
  \/ OwnerOf(list) # None /\ LoginIs(OwnerOf(list), login)

\* The first rule that is broken, or "ok".
Check(list, r) ==
  IF r.funnel # Absent THEN "Funnel"
  ELSE IF r.fetchSite \notin {Absent, "none", "same-origin"} THEN "CrossSite"
  ELSE IF r.host = Absent THEN "MissingHost"
  ELSE IF r.host = Unreadable \/ ~HostOk(list, r.host) THEN "Host"
  ELSE IF r.origin = Unreadable \/ (r.origin # Absent /\ ~OriginOk(list, r.origin)) THEN "Origin"
  ELSE IF r.forwarded # Absent /\ ~TailnetUserOk(list, r.login) THEN "TailnetUser"
  ELSE "ok"

Verdicts == {"ok", "Funnel", "CrossSite", "MissingHost", "Host", "Origin", "TailnetUser"}

(***************************************************************************)
(* The rules as the head of access.rs states them, by the texts that name  *)
(* an allowed address instead of by parsing (access.rs:23-29)              *)
(***************************************************************************)
HostForms(a) == [host : Spelled(a.host.name), port : {None, a.port}]
LoopbackForms == [host : Spelled("loopback"), port : {None} \cup Ports]

OriginForms(a) ==
  [scheme : {a.scheme}, host : Spelled(a.host.name), rest : {"none", "slash"},
   port : {a.port} \cup {p \in {None} : a.port = DefaultPort(a.scheme)}]

OwnPages(list) ==
  [scheme : {"http", "https"}, host : {Lowercase("loopback")}, port : {list.port}]

\* Loopback counts only with the own port, even if --allow-origin names it.
ForeignPages(list) == {a \in Addresses(list) : ~IsLoopback(a.host)}

LoginForms(user) == [user : Spelled(user.name), coding : {"plain", "q"}]

AsDocumented(list, r) ==
  /\ r.funnel = Absent
  /\ r.fetchSite \in {Absent, "none", "same-origin"}
  /\ r.host \in LoopbackForms \cup UNION {HostForms(a) : a \in Addresses(list)}
  /\ \/ r.origin = Absent
     \/ r.origin \in UNION {OriginForms(a) : a \in ForeignPages(list) \cup OwnPages(list)}
  /\ \/ r.forwarded = Absent
     \/ list.anyUser
     \/ OwnerOf(list) # None /\ r.login \in LoginForms(OwnerOf(list))
=============================================================================
