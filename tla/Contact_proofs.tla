-------------------------- MODULE Contact_proofs ---------------------------
(***************************************************************************)
(* Proofs about how the engine is seen from outside: the links of the      *)
(* mails, the web push and the socket of the dashboards, for any number of *)
(* alarms, tokens, addresses, devices, rows, clients and messages under    *)
(* way.                                                                    *)
(***************************************************************************)
EXTENDS AckLink, WebPush, Broadcast, SequenceTheorems, TLAPS

-----------------------------------------------------------------------------
(* The links of the mails *)

LinkSpec == FeedInit /\ LinkInit /\ [][LinkNext]_<<feedVars, linkVars>>

Issued(t) == link[t].state # "unissued"

LinkTypeOK ==
  /\ opening \in [Check -> 0 .. MaxOpenings]
  /\ link \in [Token -> [state : {"unissued", "live", "used", "expired"},
                         alarm : Alarm \cup {None}, to : Recipient \cup {None}, acks : Nat]]
  /\ mail \in [pc : {"idle", "mint", "ready"}, alarm : Alarm \cup {None},
               to : Recipient \cup {None}, token : Token \cup {None}]
  /\ mailed \in SUBSET [alarm : Alarm \cup {None}, to : Recipient \cup {None}, token : Token]
  /\ tap \in [Tap -> [pc : {"idle", "form", "claimed"}, token : Token \cup {None},
                      page : {"none", "form", "already", "expired", "resolved", "acknowledged"}]]

\* Only a used token was acked through, and a claim that has yet to ack is the
\* only one of its token.
ClaimsAreSole ==
  /\ \A t \in Token : link[t].acks <= 1 /\ (link[t].state # "used" => link[t].acks = 0)
  /\ \A p \in Tap : tap[p].pc = "claimed" =>
       /\ tap[p].token \in Token
       /\ link[tap[p].token].state = "used" /\ link[tap[p].token].acks = 0
  /\ \A p, q \in Tap :
       tap[p].pc = "claimed" /\ tap[q].pc = "claimed" /\ tap[p].token = tap[q].token => p = q

\* A form shows a token that was issued.
FormsAreIssued == \A p \in Tap : tap[p].pc = "form" => tap[p].token \in Token /\ Issued(tap[p].token)

\* What the ticker knows of the link it prepares: there is none yet, or this one.
MailKnows ==
  /\ mail.pc = "mint" => LiveLinks(mail.alarm, mail.to) = {}
  /\ mail.pc = "ready" =>
       /\ mail.token \in Token /\ Issued(mail.token)
       /\ link[mail.token].to = mail.to /\ link[mail.token].alarm = mail.alarm

MailedIsIssued ==
  \A m \in mailed : Issued(m.token) /\ link[m.token].to = m.to /\ link[m.token].alarm = m.alarm

LiveIsUnique ==
  \A t, u \in Token :
    /\ link[t].state = "live" /\ link[u].state = "live"
    /\ link[t].alarm = link[u].alarm /\ link[t].to = link[u].to
    => t = u

LinkInv ==
  /\ LinkTypeOK /\ ClaimsAreSole /\ FormsAreIssued /\ MailKnows /\ MailedIsIssued /\ LiveIsUnique

LEMMA LinkInitially == FeedInit /\ LinkInit => LinkInv
<1> SUFFICES ASSUME FeedInit, LinkInit PROVE LinkInv
  OBVIOUS
<1>1. LinkTypeOK
  BY FeedAssumption DEF FeedInit, LinkInit, LinkTypeOK, Unissued, NoMail, NoTap
<1>2. ClaimsAreSole /\ FormsAreIssued /\ MailKnows /\ MailedIsIssued /\ LiveIsUnique
  BY DEF LinkInit, Unissued, NoMail, NoTap, ClaimsAreSole, FormsAreIssued, MailKnows,
         MailedIsIssued, LiveIsUnique
<1> QED
  BY <1>1, <1>2 DEF LinkInv

\* The engine, and whoever acks elsewhere: no link is touched.
LEMMA FeedStep ==
  ASSUME LinkInv, \E c \in Check : FeedOpen(c) \/ FeedChange(c), UNCHANGED linkVars
  PROVE  LinkInv'
<1>1. opening' \in [Check -> 0 .. MaxOpenings]
  <2>1. CASE \E c \in Check : FeedChange(c)
    BY <2>1 DEF FeedChange, LinkInv, LinkTypeOK
  <2>2. CASE \E c \in Check : FeedOpen(c)
    BY <2>2, FeedAssumption DEF FeedOpen, LinkInv, LinkTypeOK
  <2> QED BY <2>1, <2>2
<1> QED
  BY <1>1 DEF linkVars, LinkInv, LinkTypeOK, ClaimsAreSole, FormsAreIssued, MailKnows, LiveLinks,
              MailedIsIssued, LiveIsUnique, Issued

\* The ticker prepares a mail: only minting makes a token live.
LEMMA MailStep ==
  ASSUME LinkInv, UNCHANGED <<opening, tap>>,
         \/ \E c \in Check, r \in Recipient : opening[c] > 0 /\ MailLookUp(Latest(c), r)
         \/ \E t \in Token : MailMint(t)
         \/ MailDeliver \/ MailWithoutLink
  PROVE  LinkInv'
<1> USE DEF LinkInv
<1>1. CASE MailDeliver \/ MailWithoutLink
  <2>1. UNCHANGED link /\ mail' = NoMail
    BY <1>1 DEF MailDeliver, MailWithoutLink
  <2>2. mailed' \in SUBSET [alarm : Alarm \cup {None}, to : Recipient \cup {None}, token : Token]
    BY <1>1 DEF MailDeliver, MailWithoutLink, LinkTypeOK, MailKnows
  <2>3. MailedIsIssued'
    BY <1>1, <2>1 DEF MailDeliver, MailWithoutLink, MailedIsIssued, MailKnows, Issued
  <2> QED
    BY <2>1, <2>2, <2>3 DEF NoMail, LinkTypeOK, ClaimsAreSole, FormsAreIssued, MailKnows,
                            LiveIsUnique, Issued
<1>2. ASSUME NEW c \in Check, NEW r \in Recipient, opening[c] > 0, MailLookUp(Latest(c), r)
      PROVE  LinkInv'
  <2>1. Latest(c) \in Alarm
    BY <1>2, FeedAssumption DEF LinkTypeOK, Latest, Alarm
  <2>2. UNCHANGED <<link, mailed>>
    BY <1>2 DEF MailLookUp
  <2>3. mail'.alarm = Latest(c) /\ mail'.to = r
    BY <1>2 DEF MailLookUp
  <2>4. \/ \E t \in LiveLinks(Latest(c), r) : mail'.pc = "ready" /\ mail'.token = t
        \/ LiveLinks(Latest(c), r) = {} /\ mail'.pc = "mint"
    BY <1>2 DEF MailLookUp
  <2>5. mail' \in [pc : {"idle", "mint", "ready"}, alarm : Alarm \cup {None},
                   to : Recipient \cup {None}, token : Token \cup {None}]
    BY <1>2, <2>1 DEF MailLookUp, LiveLinks
  <2>6. MailKnows'
    BY <2>2, <2>3, <2>4 DEF MailKnows, LiveLinks, Issued
  <2> QED
    BY <2>2, <2>5, <2>6 DEF LinkTypeOK, ClaimsAreSole, FormsAreIssued, MailedIsIssued,
                            LiveIsUnique, Issued
<1>3. ASSUME NEW t \in Token, MailMint(t) PROVE LinkInv'
  <2>1. /\ mail.pc = "mint" /\ link[t].state = "unissued"
        /\ link' = [link EXCEPT ![t] =
             [state |-> "live", alarm |-> mail.alarm, to |-> mail.to, acks |-> 0]]
        /\ mail' = [mail EXCEPT !.pc = "ready", !.token = t]
        /\ UNCHANGED mailed
    BY <1>3 DEF MailMint
  <2>2. LinkTypeOK'
    BY <2>1 DEF LinkTypeOK
  <2>3. link'[t] = [state |-> "live", alarm |-> mail.alarm, to |-> mail.to, acks |-> 0]
    BY <2>1 DEF LinkTypeOK
  <2>4. \A u \in Token \ {t} : link'[u] = link[u]
    BY <2>1 DEF LinkTypeOK
  <2>5. mail'.pc = "ready" /\ mail'.token = t /\ mail'.alarm = mail.alarm /\ mail'.to = mail.to
    BY <2>1 DEF LinkTypeOK
  <2>6. ClaimsAreSole'
    BY <2>1, <2>3, <2>4 DEF ClaimsAreSole
  <2>7. FormsAreIssued' /\ MailKnows'
    BY <2>1, <2>3, <2>4, <2>5 DEF FormsAreIssued, MailKnows, Issued
  <2>8. MailedIsIssued'
    BY <2>1, <2>3, <2>4 DEF MailedIsIssued, Issued, LinkTypeOK
  <2>9. LiveIsUnique'
    BY <2>1, <2>3, <2>4 DEF LiveIsUnique, MailKnows, LiveLinks
  <2> QED BY <2>2, <2>6, <2>7, <2>8, <2>9
<1> QED
  BY <1>1, <1>2, <1>3

\* A token is claimed, acked through or expires: it stays issued to whom it was,
\* and is not live again.
LEMMA TapStep ==
  ASSUME LinkInv, UNCHANGED <<opening, mail, mailed>>,
         \/ \E p \in Tap :
              \/ Claim(p) \/ ClaimRefused(p) \/ AckThroughLink(p) \/ AckLost(p)
              \/ \E m \in mailed : OpenForm(p, m)
         \/ \E t \in Token : Expire(t)
  PROVE  LinkInv'
<1> USE DEF LinkInv
<1>1. ASSUME link' \in [Token -> [state : {"unissued", "live", "used", "expired"},
                          alarm : Alarm \cup {None}, to : Recipient \cup {None}, acks : Nat]],
             \A t \in Token :
               /\ link'[t].alarm = link[t].alarm /\ link'[t].to = link[t].to
               /\ Issued(t)' = Issued(t)
               /\ link'[t].state = "live" => link[t].state = "live"
      PROVE  MailKnows' /\ MailedIsIssued' /\ LiveIsUnique'
  <2>1. MailKnows'
    BY <1>1 DEF MailKnows, LiveLinks
  <2>2. MailedIsIssued'
    BY <1>1 DEF MailedIsIssued, LinkTypeOK
  <2>3. LiveIsUnique'
    BY <1>1 DEF LiveIsUnique
  <2> QED BY <2>1, <2>2, <2>3
<1>2. ASSUME NEW p \in Tap, Claim(p) PROVE LinkInv'
  <2>0. PICK t \in Token : t = tap[p].token
    BY <1>2 DEF Claim, FormsAreIssued
  <2>1. link[t].state = "live" /\ link[t].acks = 0
    BY <1>2, <2>0 DEF Claim, consume_ack_token, ClaimsAreSole
  <2>2. link' = [link EXCEPT ![t].state = "used"]
    BY <1>2, <2>0 DEF Claim
  <2>3. /\ link' \in [Token -> [state : {"unissued", "live", "used", "expired"},
                     alarm : Alarm \cup {None}, to : Recipient \cup {None}, acks : Nat]]
        /\ link'[t] = [link[t] EXCEPT !.state = "used"]
        /\ \A u \in Token \ {t} : link'[u] = link[u]
    BY <2>2 DEF LinkTypeOK
  <2>4. /\ tap' \in [Tap -> [pc : {"idle", "form", "claimed"}, token : Token \cup {None},
                page : {"none", "form", "already", "expired", "resolved", "acknowledged"}]]
        /\ tap'[p].pc = "claimed" /\ tap'[p].token = t
        /\ \A q \in Tap \ {p} : tap'[q] = tap[q]
    BY <1>2, <2>0 DEF Claim, LinkTypeOK
  <2>5. LinkTypeOK'
    BY <2>3, <2>4 DEF LinkTypeOK
  <2>6. link'[t].state = "used" /\ link'[t].acks = 0
    BY <2>1, <2>3 DEF LinkTypeOK
  <2>7. ClaimsAreSole'
    <3>1. \A q \in Tap \ {p} : tap'[q].pc = "claimed" =>
            /\ tap'[q].token \in Token \ {t}
            /\ link'[tap'[q].token].state = "used" /\ link'[tap'[q].token].acks = 0
      BY <2>1, <2>3, <2>4 DEF ClaimsAreSole
    <3>2. \A u \in Token : link'[u].acks <= 1 /\ (link'[u].state # "used" => link'[u].acks = 0)
      BY <2>3, <2>6 DEF ClaimsAreSole
    <3>3. \A q, r \in Tap \ {p} :
            tap'[q].pc = "claimed" /\ tap'[r].pc = "claimed" /\ tap'[q].token = tap'[r].token
            => q = r
      BY <2>4 DEF ClaimsAreSole
    <3> QED
      BY <2>4, <2>6, <3>1, <3>2, <3>3 DEF ClaimsAreSole
  <2>8. FormsAreIssued'
    BY <2>3, <2>4, <2>6 DEF FormsAreIssued, Issued
  <2>9. MailKnows' /\ MailedIsIssued' /\ LiveIsUnique'
    BY <1>1, <2>1, <2>3, <2>6 DEF LinkTypeOK, Issued
  <2> QED BY <2>5, <2>7, <2>8, <2>9
<1>3. ASSUME NEW p \in Tap, AckThroughLink(p) PROVE LinkInv'
  <2>0. PICK t \in Token : t = tap[p].token /\ tap[p].pc = "claimed"
    BY <1>3 DEF AckThroughLink, ClaimsAreSole
  <2>1. link[t].state = "used" /\ link[t].acks = 0
    BY <2>0 DEF ClaimsAreSole
  <2>2. link' = [link EXCEPT ![t].acks = @ + 1]
    BY <1>3, <2>0 DEF AckThroughLink
  <2>3. /\ link' \in [Token -> [state : {"unissued", "live", "used", "expired"},
                     alarm : Alarm \cup {None}, to : Recipient \cup {None}, acks : Nat]]
        /\ link'[t] = [link[t] EXCEPT !.acks = link[t].acks + 1]
        /\ \A u \in Token \ {t} : link'[u] = link[u]
    BY <2>2 DEF LinkTypeOK
  <2>4. /\ tap' \in [Tap -> [pc : {"idle", "form", "claimed"}, token : Token \cup {None},
                page : {"none", "form", "already", "expired", "resolved", "acknowledged"}]]
        /\ tap'[p].pc = "idle" /\ \A q \in Tap \ {p} : tap'[q] = tap[q]
    BY <1>3 DEF AckThroughLink, LinkTypeOK
  <2>5. LinkTypeOK'
    BY <2>3, <2>4 DEF LinkTypeOK
  <2>6. link'[t].state = "used" /\ link'[t].acks = 1
    BY <2>1, <2>3 DEF LinkTypeOK
  <2>7. ClaimsAreSole'
    <3>1. \A q \in Tap : tap'[q].pc = "claimed" =>
            /\ q # p /\ tap'[q].token \in Token \ {t}
            /\ link'[tap'[q].token].state = "used" /\ link'[tap'[q].token].acks = 0
      BY <2>0, <2>3, <2>4 DEF ClaimsAreSole
    <3>2. \A u \in Token : link'[u].acks <= 1 /\ (link'[u].state # "used" => link'[u].acks = 0)
      BY <2>3, <2>6 DEF ClaimsAreSole
    <3> QED
      BY <2>4, <3>1, <3>2 DEF ClaimsAreSole
  <2>8. FormsAreIssued'
    BY <2>3, <2>4, <2>6 DEF FormsAreIssued, Issued
  <2>9. /\ link'[t].alarm = link[t].alarm /\ link'[t].to = link[t].to
        /\ Issued(t)' = Issued(t)
    BY <2>1, <2>3, <2>6 DEF LinkTypeOK, Issued
  <2>10. MailKnows' /\ MailedIsIssued' /\ LiveIsUnique'
    BY <1>1, <2>3, <2>6, <2>9 DEF Issued
  <2> QED BY <2>5, <2>7, <2>8, <2>10
<1>4. ASSUME NEW t \in Token, Expire(t) PROVE LinkInv'
  <2>1. /\ link[t].state = "live" /\ link' = [link EXCEPT ![t].state = "expired"]
        /\ UNCHANGED tap
    BY <1>4 DEF Expire
  <2>2. link'[t] = [link[t] EXCEPT !.state = "expired"] /\ \A u \in Token \ {t} : link'[u] = link[u]
    BY <2>1 DEF LinkTypeOK
  <2>3. LinkTypeOK'
    BY <2>1 DEF LinkTypeOK
  <2>4. ClaimsAreSole'
    BY <2>1, <2>2 DEF ClaimsAreSole, LinkTypeOK
  <2>5. FormsAreIssued'
    BY <2>1, <2>2 DEF FormsAreIssued, Issued, LinkTypeOK
  <2> QED BY <1>1, <2>1, <2>2, <2>3, <2>4, <2>5 DEF LinkTypeOK, Issued
<1>5. ASSUME NEW p \in Tap,
             ClaimRefused(p) \/ AckLost(p) \/ \E m \in mailed : OpenForm(p, m)
      PROVE  LinkInv'
  <2>1. UNCHANGED link
    BY <1>5 DEF ClaimRefused, AckLost, OpenForm
  <2>2. \A q \in Tap \ {p} : tap'[q] = tap[q]
    BY <1>5 DEF ClaimRefused, AckLost, OpenForm, LinkTypeOK
  <2>3. tap'[p].pc \in {"idle", "form"}
    BY <1>5 DEF ClaimRefused, AckLost, OpenForm, LinkTypeOK, NoTap
  <2>4. tap'[p].pc = "form" => tap'[p].token \in Token /\ Issued(tap'[p].token)
    BY <1>5 DEF ClaimRefused, AckLost, OpenForm, LinkTypeOK, NoTap, MailedIsIssued
  <2>5. LinkTypeOK'
    BY <1>5, <2>1 DEF ClaimRefused, AckLost, OpenForm, LinkTypeOK, NoTap, FormPage
  <2>6. ClaimsAreSole'
    BY <2>1, <2>2, <2>3 DEF ClaimsAreSole
  <2>7. FormsAreIssued'
    BY <2>1, <2>2, <2>4 DEF FormsAreIssued, Issued
  <2> QED
    BY <2>1, <2>5, <2>6, <2>7 DEF MailKnows, LiveLinks, MailedIsIssued, LiveIsUnique, Issued
<1> QED
  BY <1>2, <1>3, <1>4, <1>5

LEMMA LinkInductive == LinkSpec => []LinkInv
<1>1. LinkInv /\ [LinkNext]_<<feedVars, linkVars>> => LinkInv'
  <2> SUFFICES ASSUME LinkInv, [LinkNext]_<<feedVars, linkVars>> PROVE LinkInv'
    OBVIOUS
  <2>1. CASE UNCHANGED <<feedVars, linkVars>>
    BY <2>1 DEF feedVars, linkVars, LinkInv, LinkTypeOK, ClaimsAreSole, FormsAreIssued,
                MailKnows, LiveLinks, MailedIsIssued, LiveIsUnique, Issued
  <2>2. CASE \E c \in Check : (FeedOpen(c) \/ FeedChange(c)) /\ UNCHANGED linkVars
    BY <2>2, FeedStep
  <2>3. CASE \E p \in Tap : AckThroughLink(p)
    <3>1. UNCHANGED <<opening, mail, mailed>>
      BY <2>3 DEF AckThroughLink, FeedAck
    <3> QED BY <2>3, <3>1, TapStep
  <2>4. CASE /\ UNCHANGED feedVars
             /\ \/ \E c \in Check, r \in Recipient : opening[c] > 0 /\ MailLookUp(Latest(c), r)
                \/ \E t \in Token : MailMint(t)
                \/ MailDeliver \/ MailWithoutLink
    <3>1. UNCHANGED <<opening, tap>>
      BY <2>4 DEF feedVars, MailLookUp, MailMint, MailDeliver, MailWithoutLink
    <3> QED BY <2>4, <3>1, MailStep
  <2>5. CASE /\ UNCHANGED feedVars
             /\ \/ \E t \in Token : Expire(t)
                \/ \E p \in Tap :
                     Claim(p) \/ ClaimRefused(p) \/ AckLost(p) \/ \E m \in mailed : OpenForm(p, m)
    <3>1. UNCHANGED <<opening, mail, mailed>>
      BY <2>5 DEF feedVars, Expire, Claim, ClaimRefused, AckLost, OpenForm
    <3> QED BY <2>5, <3>1, TapStep
  <2> QED
    BY <2>1, <2>2, <2>3, <2>4, <2>5 DEF LinkNext
<1> QED
  BY <1>1, LinkInitially, PTL DEF LinkSpec

\* However many taps on a link are in flight, and whatever is lost between the
\* claim and the ack, one ack at most is written through it (ack_apply).
THEOREM LinksAckOnce == LinkSpec => []LinkAcksOnce
<1>1. LinkInv => LinkAcksOnce
  BY DEF LinkInv, ClaimsAreSole, LinkAcksOnce
<1> QED
  BY <1>1, LinkInductive, PTL

\* An address has one working link of an alarm at most, and each mailed link acks
\* the alarm it was mailed about in the name it was mailed to (ensure_ack_token).
THEOREM LinksArePersonal == LinkSpec => []OneLinkPerReader
<1>1. LinkInv => OneLinkPerReader
  BY DEF LinkInv, LiveIsUnique, MailedIsIssued, OneLinkPerReader
<1> QED
  BY <1>1, LinkInductive, PTL

-----------------------------------------------------------------------------
(* The web push *)

PushSpec == FeedInit /\ PushInit /\ [][PushNext]_<<feedVars, pushVars>>

Stage == {"idle", "opened", "fetch", "send"}
Listed == UNION {[S -> [id : Nat, routing : Routing]] : S \in SUBSET Device}
Awake == {"due", "subscribed", "send"}

Announced == [pc : Stage, severity : 0 .. 2, rows : Listed, gone : SUBSET (Device \X Nat)]
Subscription == [id : Nat, present : BOOLEAN, dead : BOOLEAN, routing : Routing]
Task == [pc : {"none", "asleep", "done"} \cup Awake, id : Nat]

Standing == [Check -> [alarm : BOOLEAN, severity : 0 .. 2, acked : BOOLEAN,
                       cause : Check \cup {NoCheck}]]

PushTypeOK ==
  /\ standing \in Standing
  /\ opening \in [Check -> 0 .. MaxOpenings]
  /\ device \in [Device -> Subscription]
  /\ silence \in BOOLEAN
  /\ announce \in [Alarm -> Announced]
  /\ deferred \in [Alarm -> [Device -> Task]]
  /\ pushed \in [Alarm -> [Device -> Nat]]

\* The listener has yet to come to the device's row.
Ahead(a, d) ==
  \/ announce[a].pc \in {"opened", "fetch"}
  \/ announce[a].pc = "send" /\ d \in DOMAIN announce[a].rows

Asleep(a, d) == deferred[a][d].pc \in {"asleep"} \cup Awake

\* One thing at a time may still push the alarm to the device, the listener or a
\* task, and only if nothing has; an alarm to come has none of them.
OneChance ==
  \A a \in Alarm, d \in Device :
    /\ pushed[a][d] <= 1
    /\ Ahead(a, d) => deferred[a][d].pc = "none" /\ pushed[a][d] = 0
    /\ Asleep(a, d) => pushed[a][d] = 0
    /\ a.n > opening[a.check] =>
         /\ announce[a].pc = "idle" /\ deferred[a][d].pc = "none" /\ pushed[a][d] = 0

\* A muted alarm waits to be looked at, or has been dropped.
MutedIsDropped ==
  \A a \in muted :
    /\ silence /\ announce[a].pc \in {"idle", "opened"}
    /\ \A d \in Device : deferred[a][d].pc = "none" /\ pushed[a][d] = 0

PushInv == PushTypeOK /\ OneChance /\ MutedIsDropped /\ NoMootPush

\* A list without one of its rows.
LEMMA Shorter ==
  ASSUME NEW rows \in Listed, NEW d \in DOMAIN rows
  PROVE  /\ [e \in DOMAIN rows \ {d} |-> rows[e]] \in Listed
         /\ rows[d].id \in Nat
<1>1. PICK S \in SUBSET Device : rows \in [S -> [id : Nat, routing : Routing]]
  BY DEF Listed
<1>2. [e \in DOMAIN rows \ {d} |-> rows[e]] \in [S \ {d} -> [id : Nat, routing : Routing]]
  BY <1>1
<1>3. S \ {d} \in SUBSET Device
  OBVIOUS
<1> QED
  BY <1>1, <1>2, <1>3 DEF Listed

LEMMA PushInitially == FeedInit /\ PushInit => PushInv
<1> SUFFICES ASSUME FeedInit, PushInit PROVE PushInv
  OBVIOUS
<1>1. <<>> \in Listed
  <2>1. <<>> \in [{} -> [id : Nat, routing : Routing]]
    OBVIOUS
  <2> QED BY <2>1 DEF Listed
<1>2. standing \in Standing /\ opening \in [Check -> 0 .. MaxOpenings]
  BY FeedAssumption DEF FeedInit, Engine!Init, Engine!Quiet, Standing
<1>3. device \in [Device -> Subscription]
  BY DEF PushInit, AnyRouting, Routing, Subscription
<1>4. announce \in [Alarm -> Announced]
  <2>1. IdleAnnounce \in Announced
    BY <1>1 DEF IdleAnnounce, Announced, Stage
  <2> QED BY <2>1 DEF PushInit
<1>5. /\ deferred \in [Alarm -> [Device -> Task]]
      /\ pushed \in [Alarm -> [Device -> Nat]]
      /\ silence \in BOOLEAN
  BY DEF PushInit, NoTask, Task, Awake
<1>6. OneChance
  <2> SUFFICES ASSUME NEW a \in Alarm, NEW d \in Device
               PROVE  /\ announce[a].pc = "idle" /\ deferred[a][d].pc = "none"
                      /\ pushed[a][d] = 0
    BY DEF OneChance, Ahead, Asleep, Awake
  <2> QED
    BY DEF PushInit, IdleAnnounce, NoTask
<1>7. MutedIsDropped /\ NoMootPush
  BY DEF PushInit, MutedIsDropped, NoMootPush
<1> QED
  BY <1>2, <1>3, <1>4, <1>5, <1>6, <1>7 DEF PushInv, PushTypeOK

\* The alarms, which the push only reads.
LEMMA FeedTypes ==
  ASSUME PushTypeOK, PushNext
  PROVE  standing' \in Standing /\ opening' \in [Check -> 0 .. MaxOpenings]
<1>1. ASSUME NEW c \in Check, FeedOpen(c)
      PROVE  standing' \in Standing /\ opening' \in [Check -> 0 .. MaxOpenings]
  BY <1>1, FeedAssumption DEF FeedOpen, Engine!Open, Standing, PushTypeOK
<1>2. ASSUME NEW c \in Check, FeedChange(c)
      PROVE  standing' \in Standing /\ opening' \in [Check -> 0 .. MaxOpenings]
  <2>1. UNCHANGED opening
    BY <1>2 DEF FeedChange
  <2>2. CASE Engine!Close(c)
    <3>1. Engine!Quiet \in [alarm : BOOLEAN, severity : 0 .. 2, acked : BOOLEAN,
                             cause : Check \cup {NoCheck}]
      BY DEF Engine!Quiet
    <3> QED BY <2>1, <2>2, <3>1 DEF Engine!Close, Standing, PushTypeOK
  <2>3. CASE Engine!Worsen(c)
    BY <2>1, <2>3 DEF Engine!Worsen, Standing, PushTypeOK
  <2>4. CASE Engine!AckOrUnack(c)
    <3>1. PICK acked \in BOOLEAN : standing' = [standing EXCEPT ![c].acked = acked]
      BY <2>4 DEF Engine!AckOrUnack
    <3> QED BY <2>1, <3>1 DEF Standing, PushTypeOK
  <2> QED BY <1>2, <2>2, <2>3, <2>4 DEF FeedChange
<1> QED
  BY <1>1, <1>2 DEF PushNext, PushAlarmOpens, feedVars, PushTypeOK

\* People, their devices and the silences.
LEMMA DeviceStep ==
  ASSUME PushTypeOK, UNCHANGED <<feedVars, announce, deferred, pushed>>,
         \/ ToggleSilence
         \/ \E d \in Device :
              \/ subscribe(d) \/ unsubscribe(d) \/ DeviceDies(d)
              \/ \E routing \in Wish : put_routing(d, routing)
  PROVE  PushTypeOK' /\ (OneChance => OneChance')
<1>1. device' \in [Device -> Subscription]
      /\ silence' \in BOOLEAN
  <2>1. AnyRouting \in Routing
    BY DEF AnyRouting, Routing
  <2>2. ASSUME NEW d \in Device, subscribe(d)
        PROVE  device' \in [Device -> Subscription] /\ UNCHANGED silence
    <3>1. CASE device[d].present
      BY <2>2, <3>1 DEF subscribe, PushTypeOK, Subscription
    <3>2. CASE ~device[d].present
      <4>1. /\ device' = [device EXCEPT ![d] =
                 [id |-> device[d].id + 1, present |-> TRUE, dead |-> FALSE, routing |-> AnyRouting]]
            /\ UNCHANGED silence
        BY <2>2, <3>2 DEF subscribe
      <4>2. [id |-> device[d].id + 1, present |-> TRUE, dead |-> FALSE, routing |-> AnyRouting]
              \in Subscription
        BY <2>1 DEF PushTypeOK, Subscription
      <4> QED BY <4>1, <4>2 DEF PushTypeOK
    <3> QED BY <3>1, <3>2
  <2>3. ASSUME NEW d \in Device, unsubscribe(d) \/ DeviceDies(d)
        PROVE  device' \in [Device -> Subscription] /\ UNCHANGED silence
    <3>1. CASE unsubscribe(d)
      BY <3>1 DEF unsubscribe, PushTypeOK, Subscription
    <3>2. CASE DeviceDies(d)
      BY <3>2 DEF DeviceDies, PushTypeOK, Subscription
    <3> QED BY <2>3, <3>1, <3>2
  <2>4. ASSUME NEW d \in Device, NEW routing \in Wish, put_routing(d, routing)
        PROVE  device' \in [Device -> Subscription] /\ UNCHANGED silence
    <3>1. routing \in Routing
      BY PushAssumption
    <3> QED BY <2>4, <3>1 DEF put_routing, PushTypeOK, Subscription
  <2>5. CASE ToggleSilence
    BY <2>5 DEF ToggleSilence, PushTypeOK
  <2> QED BY <2>2, <2>3, <2>4, <2>5 DEF PushTypeOK
<1> QED
  BY <1>1 DEF feedVars, PushTypeOK, OneChance, Ahead, Asleep

\* An alarm opens, and its number is new.
LEMMA OpenStep ==
  ASSUME PushTypeOK, OneChance, NEW c \in Check, PushAlarmOpens(c),
         standing' \in Standing, opening' \in [Check -> 0 .. MaxOpenings]
  PROVE  PushTypeOK' /\ OneChance'
<1> DEFINE b == [check |-> c, n |-> opening'[c]]
           opened == [IdleAnnounce EXCEPT !.pc = "opened", !.severity = standing'[c].severity]
<1>1. /\ opening' = [opening EXCEPT ![c] = @ + 1]
      /\ announce' = [announce EXCEPT ![b] = opened]
      /\ UNCHANGED <<device, silence, deferred, pushed>>
  BY DEF PushAlarmOpens, FeedOpen
<1>2. b \in Alarm /\ b.n > opening[b.check]
  BY <1>1, FeedAssumption DEF Alarm, PushTypeOK
<1>3. opened \in Announced /\ opened.pc = "opened"
  <2>1. <<>> \in Listed
    <3>1. <<>> \in [{} -> [id : Nat, routing : Routing]]
      OBVIOUS
    <3> QED BY <3>1 DEF Listed
  <2> QED BY <2>1 DEF IdleAnnounce, Announced, Stage, Standing
<1> HIDE DEF opened, b
<1>4. announce'[b].pc = "opened" /\ \A a \in Alarm \ {b} : announce'[a] = announce[a]
  BY <1>1, <1>2, <1>3 DEF PushTypeOK
<1>5. PushTypeOK'
  BY <1>1, <1>2, <1>3 DEF PushTypeOK
<1>6. ASSUME NEW a \in Alarm, a.n > opening'[a.check]
      PROVE  a # b /\ a.n > opening[a.check]
  BY <1>1, <1>6 DEF PushTypeOK, Alarm, b
<1>7. ASSUME NEW a \in Alarm, NEW d \in Device, a # b
      PROVE  (Ahead(a, d)' <=> Ahead(a, d)) /\ announce'[a].pc = announce[a].pc
  BY <1>4, <1>7 DEF Ahead
<1>8. OneChance'
  BY <1>1, <1>2, <1>4, <1>6, <1>7 DEF OneChance, Asleep, Awake
<1> QED BY <1>5, <1>8

\* The tasks that waited out their delay, one device at a time.
LEMMA TaskStep ==
  ASSUME PushTypeOK, OneChance, UNCHANGED feedVars, NEW a \in Alarm, NEW d \in Device,
         \/ DelayElapses(a, d) \/ StillSubscribed(a, d) \/ StillActionable(a, d)
         \/ SendDelayed(a, d) \/ TaskRaises(a, d)
  PROVE  PushTypeOK' /\ OneChance'
<1>1. /\ Asleep(a, d) /\ UNCHANGED <<silence, announce>>
      /\ \E pc \in {"done"} \cup Awake :
           /\ deferred' = [deferred EXCEPT ![a][d].pc = pc]
           /\ pc # "done" => UNCHANGED pushed
      /\ \/ UNCHANGED pushed
         \/ \E n \in {0, 1} : pushed' = [pushed EXCEPT ![a][d] = @ + n]
  BY DEF DelayElapses, StillSubscribed, StillActionable, SendDelayed, TaskRaises, TaskTo,
         Asleep, Awake
<1>2. PICK pc \in {"done"} \cup Awake :
        /\ deferred' = [deferred EXCEPT ![a][d].pc = pc]
        /\ pc # "done" => UNCHANGED pushed
  BY <1>1
<1>3. deferred' \in [Alarm -> [Device -> Task]] /\ deferred'[a][d].pc = pc
  <2>1. deferred[a][d] \in Task
    BY DEF PushTypeOK
  <2>2. [deferred[a][d] EXCEPT !.pc = pc] \in Task /\ [deferred[a][d] EXCEPT !.pc = pc].pc = pc
    BY <2>1 DEF Task
  <2> QED BY <1>2, <2>2 DEF PushTypeOK
<1>4. \A b \in Alarm, e \in Device : b # a \/ e # d => deferred'[b][e] = deferred[b][e]
  BY <1>2 DEF PushTypeOK
<1>5. /\ pushed' \in [Alarm -> [Device -> Nat]]
      /\ pushed'[a][d] = pushed[a][d] \/ pushed'[a][d] = pushed[a][d] + 1
      /\ \A b \in Alarm, e \in Device : b # a \/ e # d => pushed'[b][e] = pushed[b][e]
  <2>1. pushed[a][d] \in Nat /\ pushed[a] \in [Device -> Nat]
    BY DEF PushTypeOK
  <2>2. CASE UNCHANGED pushed
    BY <2>2 DEF PushTypeOK
  <2>3. CASE \E n \in {0, 1} : pushed' = [pushed EXCEPT ![a][d] = @ + n]
    <3>1. PICK n \in {0, 1} : pushed' = [pushed EXCEPT ![a][d] = @ + n]
      BY <2>3
    <3>2. pushed' \in [Alarm -> [Device -> Nat]] /\ pushed'[a][d] = pushed[a][d] + n
      BY <2>1, <3>1 DEF PushTypeOK
    <3>3. \A b \in Alarm, e \in Device : b # a \/ e # d => pushed'[b][e] = pushed[b][e]
      BY <2>1, <3>1 DEF PushTypeOK
    <3> QED BY <2>1, <3>2, <3>3
  <2> QED BY <1>1, <2>2, <2>3
<1>6. device' \in [Device -> Subscription]
  <2>1. ASSUME NEW gone, DropGone(gone) PROVE device' \in [Device -> Subscription]
    <3>1. \A e \in Device : [device[e] EXCEPT !.present = FALSE] \in Subscription
      BY DEF PushTypeOK, Subscription
    <3> QED BY <2>1, <3>1 DEF DropGone, PushTypeOK
  <2> QED
    BY <2>1 DEF DelayElapses, StillSubscribed, StillActionable, SendDelayed, TaskRaises, PushTypeOK
<1>7. PushTypeOK'
  BY <1>1, <1>3, <1>5, <1>6 DEF PushTypeOK, feedVars
<1>8. ~Ahead(a, d) /\ pushed[a][d] = 0 /\ ~(a.n > opening[a.check])
  BY <1>1 DEF OneChance, Asleep, Awake
<1>9. OneChance'
  <2> SUFFICES ASSUME NEW b \in Alarm, NEW e \in Device
               PROVE  /\ pushed'[b][e] <= 1
                      /\ Ahead(b, e)' => deferred'[b][e].pc = "none" /\ pushed'[b][e] = 0
                      /\ Asleep(b, e)' => pushed'[b][e] = 0
                      /\ b.n > opening'[b.check] =>
                           /\ announce'[b].pc = "idle" /\ deferred'[b][e].pc = "none"
                           /\ pushed'[b][e] = 0
    BY DEF OneChance
  <2>1. CASE b = a /\ e = d
    BY <1>1, <1>2, <1>3, <1>5, <1>8, <2>1 DEF feedVars, Ahead, Asleep, Awake
  <2>2. CASE b # a \/ e # d
    BY <1>1, <1>4, <1>5, <2>2 DEF feedVars, OneChance, Ahead, Asleep
  <2> QED BY <2>1, <2>2
<1> QED BY <1>7, <1>9

\* A restart forgets whatever had yet to be pushed.
LEMMA RestartStep ==
  ASSUME PushTypeOK, OneChance, UNCHANGED feedVars, PushRestart
  PROVE  PushTypeOK' /\ OneChance'
<1>1. IdleAnnounce \in Announced /\ IdleAnnounce.pc = "idle"
  <2>1. <<>> \in [{} -> [id : Nat, routing : Routing]]
    OBVIOUS
  <2>2. <<>> \in Listed
    BY <2>1 DEF Listed
  <2> QED BY <2>2 DEF IdleAnnounce, Announced, Stage
<1>2. NoTask \in Task /\ NoTask.pc = "none"
  BY DEF NoTask, Task
<1>3. /\ \A a \in Alarm, d \in Device : announce'[a].pc = "idle" /\ deferred'[a][d].pc = "none"
      /\ UNCHANGED <<device, silence, pushed>>
      /\ announce' \in [Alarm -> Announced] /\ deferred' \in [Alarm -> [Device -> Task]]
  BY <1>1, <1>2 DEF PushRestart
<1> QED
  BY <1>3 DEF feedVars, PushTypeOK, OneChance, Ahead, Asleep, Awake

\* The listener finds out, drops the alarm, or reads the subscriptions.
LEMMA ListenerStep ==
  ASSUME PushTypeOK, OneChance, UNCHANGED feedVars, NEW a \in Alarm,
         LookAtSilences(a) \/ ListenerRaises(a) \/ FetchRows(a) \/ FanOutEnds(a)
  PROVE  PushTypeOK' /\ OneChance'
<1>1. IdleAnnounce \in Announced /\ IdleAnnounce.pc = "idle"
  <2>1. <<>> \in [{} -> [id : Nat, routing : Routing]]
    OBVIOUS
  <2>2. <<>> \in Listed
    BY <2>1 DEF Listed
  <2> QED BY <2>2 DEF IdleAnnounce, Announced, Stage
<1>2. announce[a] \in Announced /\ announce[a].pc # "idle"
  BY DEF PushTypeOK, LookAtSilences, ListenerRaises, FetchRows, FanOutEnds
<1>3. \E n \in Announced :
        /\ announce' = [announce EXCEPT ![a] = n]
        /\ n.pc = "idle" \/ announce[a].pc \in {"opened", "fetch"}
  <2>1. CASE LookAtSilences(a)
    <3>1. [announce[a] EXCEPT !.pc = "fetch"] \in Announced
      BY <1>2 DEF Announced, Stage
    <3> QED BY <1>1, <2>1, <3>1 DEF LookAtSilences
  <2>2. CASE ListenerRaises(a)
    BY <1>1, <2>2 DEF ListenerRaises
  <2>3. CASE FanOutEnds(a)
    BY <1>1, <2>3 DEF FanOutEnds
  <2>4. CASE FetchRows(a)
    <3> DEFINE S == {e \in Device : device[e].present}
               rows == [d \in S |-> [id |-> device[d].id, routing |-> device[d].routing]]
    <3>1. rows \in [S -> [id : Nat, routing : Routing]]
      BY DEF PushTypeOK, Subscription
    <3>2. rows \in Listed
      <4>1. S \in SUBSET Device
        OBVIOUS
      <4> QED BY <3>1, <4>1 DEF Listed
    <3>3. announce' = [announce EXCEPT ![a].pc = "send", ![a].rows = rows]
      BY <2>4 DEF FetchRows
    <3> HIDE DEF rows
    <3>4. [announce[a] EXCEPT !.pc = "send", !.rows = rows] \in Announced
      BY <1>2, <3>2 DEF Announced, Stage
    <3>5. announce' = [announce EXCEPT ![a] = [announce[a] EXCEPT !.pc = "send", !.rows = rows]]
      BY <3>3 DEF PushTypeOK
    <3> QED BY <2>4, <3>4, <3>5 DEF FetchRows
  <2> QED BY <2>1, <2>2, <2>3, <2>4
<1>4. /\ announce' \in [Alarm -> Announced]
      /\ \A b \in Alarm \ {a} : announce'[b] = announce[b]
      /\ announce'[a].pc = "idle" \/ announce[a].pc \in {"opened", "fetch"}
  BY <1>3 DEF PushTypeOK
<1>5. UNCHANGED <<silence, deferred, pushed>>
  BY DEF LookAtSilences, ListenerRaises, FetchRows, FanOutEnds
<1>6. device' \in [Device -> Subscription]
  <2>1. \A e \in Device : [device[e] EXCEPT !.present = FALSE] \in Subscription
    BY DEF PushTypeOK, Subscription
  <2>2. CASE UNCHANGED device
    BY <2>2 DEF PushTypeOK
  <2>3. CASE DropGone(announce[a].gone)
    BY <2>1, <2>3 DEF DropGone, PushTypeOK
  <2> QED
    BY <2>2, <2>3 DEF LookAtSilences, ListenerRaises, FetchRows, FanOutEnds
<1>7. PushTypeOK'
  BY <1>4, <1>5, <1>6 DEF PushTypeOK, feedVars
<1>8. \A d \in Device : Ahead(a, d)' => Ahead(a, d)
  BY <1>4 DEF Ahead
<1>9. ~(a.n > opening[a.check]) \/ Device = {}
  BY <1>2 DEF OneChance
<1>10. OneChance'
  BY <1>4, <1>5, <1>8, <1>9 DEF feedVars, OneChance, Ahead, Asleep
<1> QED BY <1>7, <1>10

\* The listener comes to the row of a device: it sends, or a task will, or neither.
LEMMA RowStep ==
  ASSUME PushTypeOK, OneChance, UNCHANGED feedVars, NEW a \in Alarm, NEW d \in Device,
         HandleRow(a, d)
  PROVE  PushTypeOK' /\ OneChance'
<1>1. announce[a] \in Announced /\ announce[a].pc = "send" /\ d \in DOMAIN announce[a].rows
  BY DEF HandleRow, PushTypeOK
<1> DEFINE rows == [e \in DOMAIN announce[a].rows \ {d} |-> announce[a].rows[e]]
<1>2. rows \in Listed /\ announce[a].rows[d].id \in Nat
  BY <1>1, Shorter DEF Announced
<1>3. DOMAIN rows = DOMAIN announce[a].rows \ {d}
  OBVIOUS
<1>4. PICK gone \in SUBSET (Device \X Nat) :
        announce' = [announce EXCEPT ![a].rows = rows, ![a].gone = @ \cup gone]
  <2>1. {} \in SUBSET (Device \X Nat) /\ {<<d, announce[a].rows[d].id>>} \in SUBSET (Device \X Nat)
    BY <1>2
  <2>2. CASE RowSkipped(a, d) \/ RowDeferred(a, d)
    BY <2>1, <2>2 DEF RowSkipped, RowDeferred, RowDone
  <2>3. CASE RowSent(a, d)
    BY <2>1, <2>3 DEF RowSent, RowDone
  <2> QED BY <2>2, <2>3 DEF HandleRow
<1> HIDE DEF rows
<1>5. announce' \in [Alarm -> Announced] /\ announce'[a].rows = rows /\ announce'[a].pc = "send"
  <2> DEFINE n == [announce[a] EXCEPT !.rows = rows, !.gone = @ \cup gone]
  <2>1. n \in Announced /\ n.rows = rows /\ n.pc = "send"
    BY <1>1, <1>2 DEF Announced
  <2>2. announce' = [announce EXCEPT ![a] = n]
    BY <1>4
  <2> HIDE DEF n
  <2> QED BY <2>1, <2>2 DEF PushTypeOK
<1>6. \A b \in Alarm \ {a} : announce'[b] = announce[b]
  BY <1>4 DEF PushTypeOK
<1>7. /\ UNCHANGED <<device, silence>>
      /\ \/ UNCHANGED <<deferred, pushed>>
         \/ /\ deferred' = [deferred EXCEPT ![a][d] =
                  [pc |-> "asleep", id |-> announce[a].rows[d].id]]
            /\ UNCHANGED pushed
         \/ UNCHANGED deferred /\ \E n \in {0, 1} : pushed' = [pushed EXCEPT ![a][d] = @ + n]
  <2>1. CASE RowSkipped(a, d)
    BY <2>1 DEF RowSkipped
  <2>2. CASE RowDeferred(a, d)
    BY <2>2 DEF RowDeferred
  <2>3. CASE RowSent(a, d)
    BY <2>3 DEF RowSent
  <2> QED BY <2>1, <2>2, <2>3 DEF HandleRow
<1>8. /\ deferred' \in [Alarm -> [Device -> Task]] /\ pushed' \in [Alarm -> [Device -> Nat]]
      /\ \A b \in Alarm, e \in Device :
           b # a \/ e # d => deferred'[b][e] = deferred[b][e] /\ pushed'[b][e] = pushed[b][e]
      /\ \/ deferred'[a][d].pc = deferred[a][d].pc /\ pushed'[a][d] \in pushed[a][d] .. pushed[a][d] + 1
         \/ pushed'[a][d] = pushed[a][d]
  <2>1. pushed[a] \in [Device -> Nat] /\ pushed[a][d] \in Nat /\ deferred[a] \in [Device -> Task]
    BY DEF PushTypeOK
  <2>2. [pc |-> "asleep", id |-> announce[a].rows[d].id] \in Task
    BY <1>2 DEF Task
  <2>3. CASE UNCHANGED <<deferred, pushed>>
    BY <2>1, <2>3 DEF PushTypeOK
  <2>4. CASE /\ deferred' = [deferred EXCEPT ![a][d] =
                  [pc |-> "asleep", id |-> announce[a].rows[d].id]]
             /\ UNCHANGED pushed
    BY <2>1, <2>2, <2>4 DEF PushTypeOK
  <2>5. ASSUME UNCHANGED deferred, NEW n \in {0, 1}, pushed' = [pushed EXCEPT ![a][d] = @ + n]
        PROVE  /\ pushed' \in [Alarm -> [Device -> Nat]]
               /\ \A b \in Alarm, e \in Device : b # a \/ e # d => pushed'[b][e] = pushed[b][e]
               /\ pushed'[a][d] = pushed[a][d] + n
    BY <2>1, <2>5 DEF PushTypeOK
  <2> QED BY <1>7, <2>1, <2>3, <2>4, <2>5 DEF PushTypeOK
<1>9. PushTypeOK'
  BY <1>5, <1>7, <1>8 DEF PushTypeOK, feedVars
<1>10. /\ deferred[a][d].pc = "none" /\ pushed[a][d] = 0 /\ ~(a.n > opening[a.check])
  BY <1>1 DEF OneChance, Ahead
<1>11. OneChance'
  <2> SUFFICES ASSUME NEW b \in Alarm, NEW e \in Device
               PROVE  /\ pushed'[b][e] <= 1
                      /\ Ahead(b, e)' => deferred'[b][e].pc = "none" /\ pushed'[b][e] = 0
                      /\ Asleep(b, e)' => pushed'[b][e] = 0
                      /\ b.n > opening'[b.check] =>
                           /\ announce'[b].pc = "idle" /\ deferred'[b][e].pc = "none"
                           /\ pushed'[b][e] = 0
    BY DEF OneChance
  <2>1. CASE b = a /\ e = d
    BY <1>3, <1>5, <1>8, <1>10, <2>1 DEF feedVars, Ahead, Asleep, Awake
  <2>2. CASE b = a /\ e # d
    <3>1. Ahead(b, e)' => Ahead(b, e)
      BY <1>1, <1>3, <1>5, <2>2 DEF Ahead
    <3>2. ~(b.n > opening'[b.check])
      BY <1>10, <2>2 DEF feedVars
    <3> QED BY <1>8, <2>2, <3>1, <3>2 DEF OneChance, Asleep
  <2>3. CASE b # a
    BY <1>6, <1>8, <2>3 DEF feedVars, OneChance, Ahead, Asleep
  <2> QED BY <2>1, <2>2, <2>3
<1> QED BY <1>9, <1>11

\* A muted alarm is dropped when its silences are looked at, and comes back at no
\* later step while the silence lasts.
LEMMA MutedStays ==
  ASSUME PushTypeOK, OneChance, OneChance', MutedIsDropped, PushNext
  PROVE  MutedIsDropped'
<1> SUFFICES ASSUME NEW a \in muted'
             PROVE  /\ silence' /\ announce'[a].pc \in {"idle", "opened"}
                    /\ \A d \in Device : deferred'[a][d].pc = "none" /\ pushed'[a][d] = 0
  BY DEF MutedIsDropped
<1>1. /\ a \in Alarm /\ silence'
      /\ a \in muted \/ (announce[a].pc = "idle" /\ announce'[a].pc = "opened")
  BY DEF PushNext, Remember
<1>2. CASE a \notin muted
  BY <1>1, <1>2 DEF OneChance, Ahead
<1>3. CASE a \in muted
  <2>1. /\ silence /\ announce[a].pc \in {"idle", "opened"}
        /\ \A d \in Device : deferred[a][d].pc = "none" /\ pushed[a][d] = 0
    BY <1>3 DEF MutedIsDropped
  <2>2. CASE UNCHANGED <<deferred, pushed>> /\ announce'[a].pc \in {"idle", "opened"}
    BY <1>1, <2>1, <2>2
  <2>3. CASE UNCHANGED <<announce, deferred, pushed>>
    BY <1>1, <2>1, <2>3
  <2>4. ASSUME NEW c \in Check, PushAlarmOpens(c)
        PROVE  UNCHANGED <<deferred, pushed>> /\ announce'[a].pc \in {"idle", "opened"}
    BY <1>1, <2>1, <2>4 DEF PushAlarmOpens, IdleAnnounce, PushTypeOK
  <2>5. ASSUME PushRestart
        PROVE  /\ announce'[a].pc = "idle" /\ UNCHANGED pushed
               /\ \A d \in Device : deferred'[a][d].pc = "none"
    BY <1>1, <2>5 DEF PushRestart, IdleAnnounce, NoTask
  <2>6. ASSUME NEW b \in Alarm, LookAtSilences(b) \/ ListenerRaises(b) \/ FetchRows(b) \/ FanOutEnds(b)
        PROVE  UNCHANGED <<deferred, pushed>> /\ announce'[a].pc \in {"idle", "opened"}
    <3>1. UNCHANGED <<deferred, pushed>>
      BY <2>6 DEF LookAtSilences, ListenerRaises, FetchRows, FanOutEnds
    <3>2. CASE b # a
      BY <1>1, <2>1, <2>6, <3>2 DEF LookAtSilences, ListenerRaises, FetchRows, FanOutEnds, PushTypeOK
    <3>3. CASE b = a
      <4>1. ~FetchRows(b) /\ ~FanOutEnds(b)
        BY <2>1, <3>3 DEF FetchRows, FanOutEnds
      <4>2. announce' = [announce EXCEPT ![a] = IdleAnnounce]
        BY <2>1, <2>6, <3>3, <4>1 DEF LookAtSilences, ListenerRaises
      <4> QED BY <1>1, <3>1, <4>2 DEF IdleAnnounce, PushTypeOK
    <3> QED BY <3>1, <3>2, <3>3
  <2>7. ASSUME NEW b \in Alarm, NEW d \in Device, HandleRow(b, d)
        PROVE  /\ announce'[a] = announce[a]
               /\ deferred'[a] = deferred[a] /\ pushed'[a] = pushed[a]
    <3>1. b # a
      BY <2>1, <2>7 DEF HandleRow
    <3> QED
      BY <1>1, <2>7, <3>1 DEF HandleRow, RowSkipped, RowDeferred, RowSent, RowDone, PushTypeOK
  <2>8. ASSUME NEW b \in Alarm, NEW d \in Device,
               \/ DelayElapses(b, d) \/ StillSubscribed(b, d) \/ StillActionable(b, d)
               \/ SendDelayed(b, d) \/ TaskRaises(b, d)
        PROVE  /\ announce'[a] = announce[a]
               /\ deferred'[a] = deferred[a] /\ pushed'[a] = pushed[a]
    <3>1. b # a
      BY <2>1, <2>8 DEF DelayElapses, StillSubscribed, StillActionable, SendDelayed, TaskRaises
    <3> QED
      BY <1>1, <2>8, <3>1 DEF DelayElapses, StillSubscribed, StillActionable, SendDelayed,
                              TaskRaises, TaskTo, PushTypeOK
  <2>9. ASSUME \/ ToggleSilence
               \/ \E d \in Device :
                    \/ subscribe(d) \/ unsubscribe(d) \/ DeviceDies(d)
                    \/ \E routing \in Wish : put_routing(d, routing)
        PROVE  UNCHANGED <<announce, deferred, pushed>>
    BY <2>9 DEF ToggleSilence, subscribe, unsubscribe, DeviceDies, put_routing
  <2> QED
    BY <1>1, <2>1, <2>2, <2>3, <2>4, <2>5, <2>6, <2>7, <2>8, <2>9 DEF PushNext
<1> QED BY <1>2, <1>3

\* To send, a task must find the alarm open and unacked, which a moot one is not.
LEMMA MootStays ==
  ASSUME PushTypeOK, NoMootPush, PushNext
  PROVE  NoMootPush'
<1> SUFFICES ASSUME NEW t \in moot', deferred'[t[1]][t[2]].pc = "send" PROVE FALSE
  BY DEF NoMootPush
<1>1. PICK a \in Alarm, d \in Device :
        /\ t = <<a, d>> /\ ~Actionable(a)'
        /\ <<a, d>> \in moot \/ deferred[a][d].pc = "asleep"
  BY DEF PushNext, Remember
<1>2. deferred[a][d].pc # "send" /\ deferred'[a][d].pc = "send"
  BY <1>1 DEF NoMootPush
<1>3. \E b \in Alarm, e \in Device : StillActionable(b, e) /\ UNCHANGED feedVars
  <2>1. ASSUME NEW b \in Alarm, NEW e \in Device, HandleRow(b, e) PROVE FALSE
    BY <1>2, <2>1 DEF HandleRow, RowSkipped, RowDeferred, RowSent, PushTypeOK
  <2>2. ASSUME NEW b \in Alarm, NEW e \in Device,
               DelayElapses(b, e) \/ StillSubscribed(b, e) \/ SendDelayed(b, e) \/ TaskRaises(b, e)
        PROVE  FALSE
    <3>1. \E pc \in {"due", "subscribed", "done"} :
            deferred' = [deferred EXCEPT ![b][e].pc = pc]
      BY <2>2 DEF DelayElapses, StillSubscribed, SendDelayed, TaskRaises, TaskTo
    <3> QED BY <1>2, <3>1 DEF PushTypeOK, Task
  <2>3. ~PushRestart
    BY <1>2 DEF PushRestart, NoTask
  <2>4. deferred' # deferred
    BY <1>2
  <2> QED
    BY <2>1, <2>2, <2>3, <2>4 DEF PushNext, PushAlarmOpens, ToggleSilence, subscribe, unsubscribe,
       DeviceDies, put_routing, LookAtSilences, ListenerRaises, FetchRows, FanOutEnds
<1>4. PICK b \in Alarm, e \in Device : StillActionable(b, e) /\ UNCHANGED feedVars
  BY <1>3
<1>5. b = a /\ e = d /\ Actionable(b)
  BY <1>2, <1>4 DEF StillActionable, TaskTo, PushTypeOK, Task
<1> QED
  BY <1>1, <1>4, <1>5 DEF feedVars, Actionable, Stands

LEMMA PushInductive == PushSpec => []PushInv
<1>1. PushInv /\ [PushNext]_<<feedVars, pushVars>> => PushInv'
  <2> SUFFICES ASSUME PushInv, [PushNext]_<<feedVars, pushVars>> PROVE PushInv'
    OBVIOUS
  <2>1. CASE UNCHANGED <<feedVars, pushVars>>
    BY <2>1 DEF feedVars, pushVars, PushInv, PushTypeOK, OneChance, Ahead, Asleep,
                MutedIsDropped, NoMootPush
  <2>2. CASE PushNext
    <3>1. standing' \in Standing /\ opening' \in [Check -> 0 .. MaxOpenings]
      BY <2>2, FeedTypes DEF PushInv
    <3>2. PushTypeOK' /\ OneChance'
      <4>1. ASSUME NEW c \in Check, PushAlarmOpens(c) PROVE PushTypeOK' /\ OneChance'
        BY <3>1, <4>1, OpenStep DEF PushInv
      <4>2. ASSUME NEW c \in Check, FeedChange(c),
                   UNCHANGED <<device, silence, announce, deferred, pushed, restarts>>
            PROVE  PushTypeOK' /\ OneChance'
        BY <3>1, <4>2 DEF FeedChange, PushInv, PushTypeOK, OneChance, Ahead, Asleep
      <4>3. CASE /\ UNCHANGED feedVars
                 /\ \/ ToggleSilence
                    \/ \E d \in Device :
                         \/ subscribe(d) \/ unsubscribe(d) \/ DeviceDies(d)
                         \/ \E routing \in Wish : put_routing(d, routing)
        <5>1. UNCHANGED <<announce, deferred, pushed>>
          BY <4>3 DEF ToggleSilence, subscribe, unsubscribe, DeviceDies, put_routing
        <5> QED BY <4>3, <5>1, DeviceStep DEF PushInv
      <4>4. CASE UNCHANGED feedVars /\ PushRestart
        BY <4>4, RestartStep DEF PushInv
      <4>5. ASSUME UNCHANGED feedVars, NEW a \in Alarm,
                   LookAtSilences(a) \/ ListenerRaises(a) \/ FetchRows(a) \/ FanOutEnds(a)
            PROVE  PushTypeOK' /\ OneChance'
        BY <4>5, ListenerStep DEF PushInv
      <4>6. ASSUME UNCHANGED feedVars, NEW a \in Alarm, NEW d \in Device,
                   \/ HandleRow(a, d)
                   \/ DelayElapses(a, d) \/ StillSubscribed(a, d)
                   \/ StillActionable(a, d) \/ SendDelayed(a, d) \/ TaskRaises(a, d)
            PROVE  PushTypeOK' /\ OneChance'
        BY <4>6, RowStep, TaskStep DEF PushInv
      <4> QED
        BY <2>2, <4>1, <4>2, <4>3, <4>4, <4>5, <4>6 DEF PushNext
    <3> QED
      BY <2>2, <3>2, MutedStays, MootStays DEF PushInv
  <2> QED BY <2>1, <2>2
<1> QED
  BY <1>1, PushInitially, PTL DEF PushSpec

\* An opening reaches a device at most once, whatever re-subscribes, restarts or
\* is sent late (dispatch_push, _send_delayed).
THEOREM OpeningsPushOnce == PushSpec => []OnePushPerOpening
<1>1. PushInv => OnePushPerOpening
  BY DEF PushInv, OneChance, OnePushPerOpening
<1> QED BY <1>1, PushInductive, PTL

\* A delayed task does not send for an alarm that has been over or acked since
\* its delay ended (the second look of _send_delayed).
THEOREM DelayedPushIsActionable == PushSpec => []NoMootPush
<1>1. PushInv => NoMootPush
  BY DEF PushInv
<1> QED BY <1>1, PushInductive, PTL

\* What opened under a silence is not pushed for as long as the silence lasts
\* (_web_push looks at the silences itself).
THEOREM SilencedIsNotPushed == PushSpec => []SilenceMutesPush
<1>1. PushInv => SilenceMutesPush
  BY DEF PushInv, MutedIsDropped, SilenceMutesPush
<1> QED BY <1>1, PushInductive, PTL
-----------------------------------------------------------------------------
(* The socket of the dashboards *)

WsSpec == WsInit /\ [][WsNext]_wsVars

Event == [check : WsCheck, status : Status]

WsTypeOK ==
  /\ latest \in [WsCheck -> Status \cup {Unheard}]
  /\ tasks \in Seq(Event)
  /\ client \in [Client -> BOOLEAN]
  /\ outbox \in [Client -> Seq(Event)]
  /\ heard \in [Client -> [WsCheck -> Status \cup {Unheard}]]
  /\ since \in [Client -> SUBSET WsCheck]

\* What the events of a queue say of a check: nothing, or v in the end.
Silent(queue, c) == \A i \in 1..Len(queue) : queue[i].check # c

SaysLast(queue, c, v) ==
  \E i \in 1..Len(queue) :
    /\ queue[i].check = c /\ queue[i].status = v
    /\ \A j \in 1..Len(queue) : j > i => queue[j].check # c

\* The status last announced is the last word on the way to a client, in the
\* tasks or else in its outbox; or it has been heard.
Informed(k, c) ==
  \/ SaysLast(tasks, c, latest[c])
  \/ /\ Silent(tasks, c)
     /\ \/ SaysLast(outbox[k], c, latest[c])
        \/ Silent(outbox[k], c) /\ heard[k][c] = latest[c]

OnTheWay == \A k \in Client : client[k] => \A c \in since[k] : Informed(k, c)

WsInv == WsTypeOK /\ OnTheWay

\* Behind a new event of the check nothing else is said of it; an event of
\* another check changes nothing.
LEMMA AppendSays ==
  ASSUME NEW s \in Seq(Event), NEW e \in Event, NEW c \in WsCheck, NEW v
  PROVE  /\ Append(s, e) \in Seq(Event)
         /\ e.check = c => SaysLast(Append(s, e), c, e.status)
         /\ e.check # c => /\ SaysLast(s, c, v) => SaysLast(Append(s, e), c, v)
                           /\ Silent(s, c) => Silent(Append(s, e), c)
<1> DEFINE t == Append(s, e)
<1>1. /\ t \in Seq(Event) /\ Len(t) = Len(s) + 1 /\ Len(s) \in Nat
      /\ \A i \in 1..Len(s) : t[i] = s[i]
      /\ t[Len(s) + 1] = e
  OBVIOUS
<1>2. ASSUME e.check = c PROVE SaysLast(t, c, e.status)
  <2>1. /\ Len(t) \in 1..Len(t) /\ t[Len(t)] = e
        /\ \A j \in 1..Len(t) : ~(j > Len(t))
    BY <1>1
  <2> HIDE DEF t
  <2> QED BY <1>2, <2>1 DEF SaysLast
<1>3. ASSUME e.check # c, SaysLast(s, c, v) PROVE SaysLast(t, c, v)
  <2>1. PICK i \in 1..Len(s) :
          /\ s[i].check = c /\ s[i].status = v
          /\ \A j \in 1..Len(s) : j > i => s[j].check # c
    BY <1>3 DEF SaysLast
  <2>2. i \in 1..Len(t) /\ t[i].check = c /\ t[i].status = v
    BY <1>1, <2>1
  <2>3. ASSUME NEW j \in 1..Len(t), j > i PROVE t[j].check # c
    BY <1>1, <1>3, <2>1, <2>3
  <2> HIDE DEF t
  <2> QED BY <2>2, <2>3 DEF SaysLast
<1>4. ASSUME e.check # c, Silent(s, c) PROVE Silent(t, c)
  <2> SUFFICES ASSUME NEW j \in 1..Len(t) PROVE t[j].check # c
    BY DEF Silent
  <2> QED BY <1>1, <1>4 DEF Silent
<1> QED BY <1>1, <1>2, <1>3, <1>4

\* When its head goes, a queue says what it said, unless the head said it.
LEMMA TailSays ==
  ASSUME NEW s \in Seq(Event), s # <<>>, NEW c \in WsCheck, NEW v
  PROVE  /\ Head(s) \in Event /\ Tail(s) \in Seq(Event)
         /\ SaysLast(s, c, v) =>
              \/ SaysLast(Tail(s), c, v)
              \/ Silent(Tail(s), c) /\ Head(s).check = c /\ Head(s).status = v
         /\ Silent(s, c) => Silent(Tail(s), c) /\ Head(s).check # c
<1> DEFINE t == Tail(s)
<1>1. /\ t \in Seq(Event) /\ Len(t) = Len(s) - 1 /\ Len(s) \in Nat \ {0}
      /\ \A i \in 1..Len(t) : t[i] = s[i + 1]
      /\ Head(s) = s[1] /\ Head(s) \in Event
  OBVIOUS
<1>2. ASSUME SaysLast(s, c, v)
      PROVE  \/ SaysLast(t, c, v)
             \/ Silent(t, c) /\ Head(s).check = c /\ Head(s).status = v
  <2>1. PICK i \in 1..Len(s) :
          /\ s[i].check = c /\ s[i].status = v
          /\ \A j \in 1..Len(s) : j > i => s[j].check # c
    BY <1>2 DEF SaysLast
  <2>2. ASSUME NEW j \in 1..Len(t), j > i - 1 PROVE t[j].check # c
    <3>1. j + 1 \in 1..Len(s) /\ j + 1 > i
      BY <1>1, <2>1, <2>2
    <3> QED BY <1>1, <2>1, <3>1
  <2>3. CASE i = 1
    <3>1. \A j \in 1..Len(t) : t[j].check # c
      BY <2>2, <2>3, <1>1
    <3> QED BY <1>1, <2>1, <2>3, <3>1 DEF Silent
  <2>4. CASE i # 1
    <3>1. i - 1 \in 1..Len(t)
      BY <1>1, <2>4
    <3>2. t[i - 1] = s[i]
      BY <1>1, <3>1
    <3> HIDE DEF t
    <3> QED BY <2>1, <2>2, <3>1, <3>2 DEF SaysLast
  <2> QED BY <2>3, <2>4
<1>3. ASSUME Silent(s, c) PROVE Silent(t, c) /\ Head(s).check # c
  <2>1. \A j \in 1..Len(t) : t[j].check # c
    BY <1>1, <1>3 DEF Silent
  <2>2. Head(s).check # c
    BY <1>1, <1>3 DEF Silent
  <2> QED BY <2>1, <2>2 DEF Silent
<1> QED BY <1>1, <1>2, <1>3

LEMMA AnnounceStep ==
  ASSUME WsInv, NEW c \in WsCheck, NEW status \in Status, _maybe_broadcast(c, status)
  PROVE  WsInv'
<1> DEFINE e == [check |-> c, status |-> status]
<1>1. e \in Event /\ e.check = c /\ e.status = status
  BY DEF Event
<1>2. tasks' = Append(tasks, e) /\ UNCHANGED <<client, outbox, heard>>
  BY DEF _maybe_broadcast
<1>3. WsTypeOK'
  <2>1. tasks' \in Seq(Event)
    BY <1>1, <1>2 DEF WsInv, WsTypeOK
  <2> QED BY <1>2, <2>1 DEF WsInv, WsTypeOK, _maybe_broadcast
<1>4. ASSUME NEW k \in Client, client'[k], NEW d \in since'[k]
      PROVE  Informed(k, d)'
  <2>1. d \in WsCheck /\ tasks \in Seq(Event)
    BY <1>3, <1>4 DEF WsInv, WsTypeOK
  <2>2. CASE d = c
    <3>1. SaysLast(tasks', d, status)
      BY <1>1, <1>2, <2>1, <2>2, AppendSays
    <3>2. latest'[d] = status
      BY <2>1, <2>2 DEF WsInv, WsTypeOK, _maybe_broadcast
    <3> QED BY <3>1, <3>2 DEF Informed
  <2>3. CASE d # c
    <3>1. /\ SaysLast(tasks, d, latest[d]) => SaysLast(tasks', d, latest[d])
          /\ Silent(tasks, d) => Silent(tasks', d)
      BY <1>1, <1>2, <2>1, <2>3, AppendSays
    <3>2. latest'[d] = latest[d]
      BY <2>1, <2>3 DEF WsInv, WsTypeOK, _maybe_broadcast
    <3>3. Informed(k, d)
      <4>1. client[k] /\ d \in since[k]
        BY <1>2, <1>4, <2>3 DEF _maybe_broadcast
      <4> QED BY <4>1 DEF WsInv, OnTheWay
    <3> QED BY <1>2, <3>1, <3>2, <3>3 DEF Informed
  <2> QED BY <2>2, <2>3
<1> QED BY <1>3, <1>4 DEF WsInv, OnTheWay

LEMMA BroadcastStep ==
  ASSUME WsInv, broadcast
  PROVE  WsInv'
<1> DEFINE e == Head(tasks)
<1>1. tasks \in Seq(Event) /\ tasks # <<>> /\ tasks' = Tail(tasks)
  BY DEF WsInv, WsTypeOK, broadcast
<1>2. e \in Event /\ tasks' \in Seq(Event)
  BY <1>1
<1>3. UNCHANGED <<latest, client, heard, since>>
  BY DEF broadcast
<1>4. \A k \in Client : outbox'[k] = IF client[k] THEN Append(outbox[k], e) ELSE outbox[k]
  BY DEF broadcast
<1>5. WsTypeOK'
  <2>1. \A k \in Client : outbox[k] \in Seq(Event) /\ Append(outbox[k], e) \in Seq(Event)
    BY <1>2 DEF WsInv, WsTypeOK
  <2>2. outbox' \in [Client -> Seq(Event)]
    BY <2>1 DEF broadcast
  <2> QED BY <1>2, <1>3, <2>2 DEF WsInv, WsTypeOK
<1>6. ASSUME NEW k \in Client, client'[k], NEW d \in since'[k]
      PROVE  Informed(k, d)'
  <2>1. d \in WsCheck /\ outbox[k] \in Seq(Event) /\ outbox'[k] = Append(outbox[k], e)
    BY <1>3, <1>4, <1>6 DEF WsInv, WsTypeOK
  <2>2. Informed(k, d)
    BY <1>3, <1>6 DEF WsInv, OnTheWay
  <2>3. CASE SaysLast(tasks, d, latest[d])
    <3>1. \/ SaysLast(tasks', d, latest[d])
          \/ Silent(tasks', d) /\ e.check = d /\ e.status = latest[d]
      BY <1>1, <2>1, <2>3, TailSays
    <3>2. e.check = d => SaysLast(outbox'[k], d, e.status)
      BY <1>2, <2>1, AppendSays
    <3> QED BY <1>3, <3>1, <3>2 DEF Informed
  <2>4. CASE Silent(tasks, d)
    <3>1. Silent(tasks', d) /\ e.check # d
      BY <1>1, <2>1, <2>4, TailSays
    <3>2. /\ SaysLast(outbox[k], d, latest[d]) => SaysLast(outbox'[k], d, latest[d])
          /\ Silent(outbox[k], d) => Silent(outbox'[k], d)
      BY <1>2, <2>1, <3>1, AppendSays
    <3>3. CASE SaysLast(tasks, d, latest[d])
      BY <2>3, <3>3
    <3>4. CASE ~SaysLast(tasks, d, latest[d])
      BY <1>3, <2>2, <3>1, <3>2, <3>4 DEF Informed
    <3> QED BY <3>3, <3>4
  <2> QED BY <2>2, <2>3, <2>4 DEF Informed
<1> QED BY <1>5, <1>6 DEF WsInv, OnTheWay

LEMMA DeliverStep ==
  ASSUME WsInv, NEW k \in Client, Deliver(k)
  PROVE  WsInv'
<1> DEFINE e == Head(outbox[k])
<1>1. /\ outbox[k] \in Seq(Event) /\ outbox[k] # <<>>
      /\ outbox' = [outbox EXCEPT ![k] = Tail(outbox[k])]
      /\ UNCHANGED <<latest, tasks, client, since>>
  BY DEF WsInv, WsTypeOK, Deliver
<1>2. e \in Event /\ e.check \in WsCheck /\ e.status \in Status /\ Tail(outbox[k]) \in Seq(Event)
  <2>1. e \in Event /\ Tail(outbox[k]) \in Seq(Event)
    BY <1>1
  <2> HIDE DEF e
  <2>2. e.check \in WsCheck /\ e.status \in Status
    BY <2>1 DEF Event
  <2> QED BY <2>1, <2>2
<1>3. /\ heard' = [heard EXCEPT ![k][e.check] = e.status]
      /\ heard \in [Client -> [WsCheck -> Status \cup {Unheard}]]
  BY DEF WsInv, WsTypeOK, Deliver
<1>4. heard' \in [Client -> [WsCheck -> Status \cup {Unheard}]]
  BY <1>2, <1>3
<1>5. WsTypeOK'
  BY <1>1, <1>2, <1>4 DEF WsInv, WsTypeOK
<1>6. ASSUME NEW j \in Client, client'[j], NEW d \in since'[j]
      PROVE  Informed(j, d)'
  <2>1. d \in WsCheck /\ outbox \in [Client -> Seq(Event)]
    BY <1>1, <1>6 DEF WsInv, WsTypeOK
  <2>2. Informed(j, d)
    BY <1>1, <1>6 DEF WsInv, OnTheWay
  <2>3. CASE j # k
    <3>1. heard'[j][d] = heard[j][d] /\ outbox'[j] = outbox[j]
      BY <1>1, <1>2, <1>3, <2>1, <2>3
    <3> QED BY <1>1, <2>2, <3>1 DEF Informed
  <2>4. CASE j = k
    <3>1. outbox'[k] = Tail(outbox[k])
      BY <1>1, <2>1
    <3>2. heard'[k][d] = IF d = e.check THEN e.status ELSE heard[k][d]
      BY <1>2, <1>3, <2>1
    <3>3. /\ SaysLast(outbox[k], d, latest[d]) =>
               \/ SaysLast(outbox'[k], d, latest[d])
               \/ Silent(outbox'[k], d) /\ e.check = d /\ e.status = latest[d]
          /\ Silent(outbox[k], d) => Silent(outbox'[k], d) /\ e.check # d
      BY <1>1, <2>1, <3>1, TailSays
    <3> QED BY <1>1, <2>2, <2>4, <3>2, <3>3 DEF Informed
  <2> QED BY <2>3, <2>4
<1> QED BY <1>5, <1>6 DEF WsInv, OnTheWay

LEMMA SocketStep ==
  ASSUME WsInv, NEW k \in Client, connect(k) \/ disconnect(k)
  PROVE  WsInv'
<1>1. WsTypeOK'
  <2>1. CASE connect(k)
    BY <2>1 DEF WsInv, WsTypeOK, connect
  <2>2. CASE disconnect(k)
    <3>1. <<>> \in Seq(Event)
      OBVIOUS
    <3> QED BY <2>2, <3>1 DEF WsInv, WsTypeOK, disconnect
  <2> QED BY <2>1, <2>2
<1>2. ASSUME NEW j \in Client, client'[j], NEW d \in since'[j]
      PROVE  Informed(j, d)'
  <2>1. /\ j # k /\ client[j] /\ d \in since[j]
        /\ UNCHANGED <<latest, tasks>> /\ outbox'[j] = outbox[j] /\ heard'[j] = heard[j]
    BY <1>2 DEF WsInv, WsTypeOK, connect, disconnect
  <2>2. Informed(j, d)
    BY <2>1 DEF WsInv, OnTheWay
  <2> QED BY <2>1, <2>2 DEF Informed
<1> QED BY <1>1, <1>2 DEF WsInv, OnTheWay

LEMMA WsInductive == WsSpec => []WsInv
<1>1. WsInit => WsInv
  <2> SUFFICES ASSUME WsInit PROVE WsInv
    OBVIOUS
  <2>1. <<>> \in Seq(Event)
    OBVIOUS
  <2> QED BY <2>1 DEF WsInit, WsInv, WsTypeOK, OnTheWay
<1>2. WsInv /\ [WsNext]_wsVars => WsInv'
  <2> SUFFICES ASSUME WsInv, [WsNext]_wsVars PROVE WsInv'
    OBVIOUS
  <2>1. CASE UNCHANGED wsVars
    BY <2>1 DEF WsInv, WsTypeOK, OnTheWay, Informed, wsVars
  <2>2. CASE WsNext
    BY <2>2, AnnounceStep, BroadcastStep, DeliverStep, SocketStep DEF WsNext
  <2> QED BY <2>1, <2>2
<1> QED BY <1>1, <1>2, PTL DEF WsSpec

\* No transition of a check is swallowed by the gate, overtaken by an older one
\* or lost unnoticed on the way to a dashboard (_maybe_broadcast, broadcast of
\* api/ws.py): to whom nothing is under way, the last status has been told.
THEOREM DashboardsKeepUp == WsSpec => []DashboardInSync
<1>1. WsInv => DashboardInSync
  <2> SUFFICES ASSUME WsInv, NEW k \in Client, client[k], outbox[k] = <<>>, tasks = <<>>,
                      NEW c \in since[k]
               PROVE  heard[k][c] = latest[c]
    BY DEF DashboardInSync
  <2>1. Informed(k, c)
    BY DEF WsInv, OnTheWay
  <2>2. \A v : ~SaysLast(<<>>, c, v)
    BY DEF SaysLast
  <2> QED BY <2>1, <2>2 DEF Informed
<1> QED BY <1>1, WsInductive, PTL

-----------------------------------------------------------------------------
(* The engine that links and pushes meet: AlarmFeed shows all of AlarmLifecycle, *)
(* which AlarmEngine implements (EngineImplementsLifecycle).                     *)

VARIABLE whole  \* AlarmLifecycle's: what stands for each check, with what is blamed

Whole == INSTANCE AlarmLifecycle WITH standing <- whole

WholeTypeOK == whole \in [Check -> [alarm : BOOLEAN, severity : 0 .. 2, acked : BOOLEAN,
                                    cause : Check \cup {NoCheck}]]

\* What stands, whatever is blamed for it.
Bare(alarm) == [alarm |-> alarm.alarm, severity |-> alarm.severity, acked |-> alarm.acked,
                cause |-> NoCheck]
Unblamed == [c \in Check |-> Bare(whole[c])]

Opened(c) == ~whole[c].alarm /\ whole'[c].alarm

\* The alarms are counted as they open.
Counting == opening' = [c \in Check |-> IF Opened(c) THEN opening[c] + 1 ELSE opening[c]]

Shown == standing = Unblamed /\ opening \in [Check -> 0 .. MaxOpenings]

Watching ==
  /\ opening = [c \in Check |-> 0]
  /\ [][Counting]_<<whole, standing, opening>>
  /\ []Shown

FeedSpec == FeedInit /\ [][\E c \in Check : FeedOpen(c) \/ FeedChange(c)]_feedVars

LEMMA WholeTypes == Whole!Spec => []WholeTypeOK
<1>1. Whole!Init => WholeTypeOK
  BY DEF Whole!Init, Whole!Quiet, WholeTypeOK
<1>2. WholeTypeOK /\ [Whole!Next]_whole => WholeTypeOK'
  <2> SUFFICES ASSUME WholeTypeOK, NEW c \in Check,
                      \/ Whole!Open(c) \/ Whole!Close(c) \/ Whole!Worsen(c)
                      \/ Whole!AckOrUnack(c) \/ Whole!Reattribute(c)
               PROVE  WholeTypeOK'
    BY DEF Whole!Next, WholeTypeOK
  <2>1. CASE Whole!Open(c)
    BY <2>1 DEF Whole!Open, WholeTypeOK
  <2>2. CASE Whole!Close(c)
    <3>1. Whole!Quiet \in [alarm : BOOLEAN, severity : 0 .. 2, acked : BOOLEAN,
                            cause : Check \cup {NoCheck}]
      BY DEF Whole!Quiet
    <3> QED BY <2>2, <3>1 DEF Whole!Close, WholeTypeOK
  <2>3. CASE Whole!Worsen(c)
    BY <2>3 DEF Whole!Worsen, WholeTypeOK
  <2>4. CASE Whole!AckOrUnack(c)
    <3>1. PICK acked \in BOOLEAN : whole' = [whole EXCEPT ![c].acked = acked]
      BY <2>4 DEF Whole!AckOrUnack
    <3> QED BY <3>1 DEF WholeTypeOK
  <2>5. CASE Whole!Reattribute(c)
    BY <2>5 DEF Whole!Reattribute, WholeTypeOK
  <2> QED BY <2>1, <2>2, <2>3, <2>4, <2>5
<1> QED BY <1>1, <1>2, PTL DEF Whole!Spec

\* A step of one check's alarm, as the feed takes it.
LEMMA WatchedStep ==
  ASSUME WholeTypeOK, WholeTypeOK', standing = Unblamed, standing' = Unblamed', Counting,
         opening \in [Check -> 0 .. MaxOpenings], opening' \in [Check -> 0 .. MaxOpenings],
         NEW c \in Check,
         \/ Whole!Open(c) \/ Whole!Close(c) \/ Whole!Worsen(c)
         \/ Whole!AckOrUnack(c) \/ Whole!Reattribute(c)
  PROVE  FeedOpen(c) \/ FeedChange(c) \/ UNCHANGED feedVars
<1>1. \A d \in Check \ {c} : whole'[d] = whole[d]
  BY DEF Whole!Open, Whole!Close, Whole!Worsen, Whole!AckOrUnack, Whole!Reattribute, WholeTypeOK
<1>2. standing' = [standing EXCEPT ![c] = Bare(whole'[c])]
  BY <1>1 DEF Unblamed
<1>3. standing[c] = Bare(whole[c])
  BY DEF Unblamed
<1>4. \A d \in Check \ {c} : ~Opened(d)
  BY <1>1 DEF Opened
<1>5. CASE Whole!Open(c)
  <2>1. PICK severity \in {0, 1}, cause \in Check \cup {NoCheck} :
          whole' = [whole EXCEPT ![c] =
            [alarm |-> TRUE, severity |-> severity, acked |-> FALSE, cause |-> cause]]
    BY <1>5 DEF Whole!Open
  <2>2. whole'[c] = [alarm |-> TRUE, severity |-> severity, acked |-> FALSE, cause |-> cause]
    BY <2>1 DEF WholeTypeOK
  <2>3. ~whole[c].alarm /\ Opened(c)
    BY <1>5, <2>2 DEF Whole!Open, Opened
  <2>4. opening' = [opening EXCEPT ![c] = @ + 1]
    BY <1>4, <2>3 DEF Counting
  <2>5. opening[c] < MaxOpenings
    <3>1. opening'[c] = opening[c] + 1
      BY <2>4
    <3> QED BY <3>1, FeedAssumption
  <2>6. standing' = [standing EXCEPT ![c] =
          [alarm |-> TRUE, severity |-> severity, acked |-> FALSE, cause |-> NoCheck]]
    BY <1>2, <2>2 DEF Bare
  <2>7. Engine!Open(c) /\ standing'[c].cause = NoCheck
    <3>1. ~standing[c].alarm
      BY <1>3, <2>3 DEF Bare, WholeTypeOK
    <3>2. standing'[c].cause = NoCheck
      BY <2>6 DEF Unblamed
    <3> QED BY <2>6, <3>1, <3>2 DEF Engine!Open
  <2> QED BY <2>4, <2>5, <2>7 DEF FeedOpen
<1>6. CASE ~Whole!Open(c)
  <2>1. whole[c].alarm
    BY <1>6 DEF Whole!Close, Whole!Worsen, Whole!AckOrUnack, Whole!Reattribute
  <2>2. UNCHANGED opening
    BY <1>4, <2>1 DEF Counting, Opened
  <2>3. standing[c].alarm
    BY <1>3, <2>1 DEF Bare, WholeTypeOK
  <2>4. CASE Whole!Close(c)
    <3>1. whole'[c] = Whole!Quiet
      BY <2>4 DEF Whole!Close, WholeTypeOK
    <3>2. Bare(whole'[c]) = Engine!Quiet
      BY <3>1 DEF Bare, Whole!Quiet, Engine!Quiet
    <3>3. Engine!Close(c)
      BY <1>2, <2>3, <3>2 DEF Engine!Close
    <3> QED BY <2>2, <3>3 DEF FeedChange
  <2>5. CASE Whole!Worsen(c)
    <3>1. PICK severity \in 1 .. 2 :
            severity > whole[c].severity /\ whole' = [whole EXCEPT ![c].severity = severity]
      BY <2>5 DEF Whole!Worsen
    <3>2. whole'[c] = [whole[c] EXCEPT !.severity = severity]
      BY <3>1 DEF WholeTypeOK
    <3>3. Bare(whole'[c]) = [standing[c] EXCEPT !.severity = severity]
      BY <1>3, <3>2 DEF Bare, WholeTypeOK
    <3>4. standing' = [standing EXCEPT ![c].severity = severity]
      BY <1>2, <3>3
    <3>5. severity > standing[c].severity /\ standing[c].cause = NoCheck
      BY <1>3, <3>1 DEF Bare, WholeTypeOK
    <3>6. Engine!Worsen(c)
      BY <2>3, <3>4, <3>5 DEF Engine!Worsen
    <3> QED BY <2>2, <3>6 DEF FeedChange
  <2>6. CASE Whole!AckOrUnack(c)
    <3>1. PICK acked \in BOOLEAN : whole' = [whole EXCEPT ![c].acked = acked]
      BY <2>6 DEF Whole!AckOrUnack
    <3>2. whole'[c] = [whole[c] EXCEPT !.acked = acked]
      BY <3>1 DEF WholeTypeOK
    <3>3. Bare(whole'[c]) = [standing[c] EXCEPT !.acked = acked]
      BY <1>3, <3>2 DEF Bare, WholeTypeOK
    <3>4. standing' = [standing EXCEPT ![c].acked = acked]
      BY <1>2, <3>3
    <3>5. Engine!AckOrUnack(c)
      BY <2>3, <3>4 DEF Engine!AckOrUnack
    <3> QED BY <2>2, <3>5 DEF FeedChange
  <2>7. CASE Whole!Reattribute(c)
    <3>1. PICK cause \in Check \cup {NoCheck} : whole' = [whole EXCEPT ![c].cause = cause]
      BY <2>7 DEF Whole!Reattribute
    <3>2. whole'[c] = [whole[c] EXCEPT !.cause = cause]
      BY <3>1 DEF WholeTypeOK
    <3>3. Bare(whole'[c]) = standing[c]
      BY <1>3, <3>2 DEF Bare, WholeTypeOK
    <3>4. standing' = standing
      BY <1>2, <3>3 DEF Unblamed
    <3> QED BY <2>2, <3>4 DEF feedVars
  <2> QED BY <1>6, <2>4, <2>5, <2>6, <2>7
<1> QED BY <1>5, <1>6

\* What is shown of links and pushes against AlarmFeed is shown for every engine
\* that keeps AlarmLifecycle (the rows of alarms and alarm_acks that ack.py and
\* _web_push read): leave out what is blamed, number the alarms as they open, and
\* each of its behaviours is one of the feed (as long as the numbers suffice).
THEOREM FeedShowsEveryLifecycle == Whole!Spec /\ Watching => FeedSpec
<1>1. Whole!Init /\ Shown /\ opening = [c \in Check |-> 0] => FeedInit
  BY DEF Whole!Init, Whole!Quiet, Shown, Unblamed, Bare, FeedInit, Engine!Init, Engine!Quiet
<1>2. /\ WholeTypeOK /\ WholeTypeOK' /\ Shown /\ Shown'
      /\ [Whole!Next]_whole /\ [Counting]_<<whole, standing, opening>>
      => [\E c \in Check : FeedOpen(c) \/ FeedChange(c)]_feedVars
  <2> SUFFICES ASSUME WholeTypeOK, WholeTypeOK', Shown, Shown',
                      [Whole!Next]_whole, [Counting]_<<whole, standing, opening>>
               PROVE  [\E c \in Check : FeedOpen(c) \/ FeedChange(c)]_feedVars
    OBVIOUS
  <2>1. CASE UNCHANGED <<whole, standing, opening>>
    BY <2>1 DEF feedVars
  <2>2. CASE Counting /\ UNCHANGED whole
    <3>1. standing' = standing
      BY <2>2 DEF Unblamed, Shown
    <3>2. opening' = opening
      BY <2>2 DEF Counting, Opened, Shown
    <3> QED BY <3>1, <3>2 DEF feedVars
  <2>3. CASE Counting /\ Whole!Next
    <3>1. PICK c \in Check : \/ Whole!Open(c) \/ Whole!Close(c) \/ Whole!Worsen(c)
                             \/ Whole!AckOrUnack(c) \/ Whole!Reattribute(c)
      BY <2>3 DEF Whole!Next
    <3> QED BY <2>3, <3>1, WatchedStep DEF Shown
  <2> QED BY <2>1, <2>2, <2>3
<1> QED
  BY <1>1, <1>2, WholeTypes, PTL DEF Whole!Spec, Watching, FeedSpec
=============================================================================
