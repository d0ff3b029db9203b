------------------------------ MODULE AckLink -------------------------------
(***************************************************************************)
(* Acknowledging from a mail.  The ticker puts into each mail a link with  *)
(* a token of the alarm and the address (store.ensure_ack_token); whoever  *)
(* opens the link is shown a form, and its button claims the token and     *)
(* acks the alarm (api/routes/ack.py).  Looking the token up and minting   *)
(* it, claiming it and acking, are statements of their own, between which  *)
(* other requests, the engine and exceptions act.                          *)
(***************************************************************************)
EXTENDS AlarmFeed

CONSTANTS
  Recipient,  \* addresses the mails go to
  Token,      \* bound: tokens ever minted
  Tap,        \* requests in flight at the same time
  None,       \* no alarm, address or token
  MaxLost     \* bound: exceptions or restarts between claim and ack

VARIABLES
  link,    \* ack_tokens, with the number of acks written through each token
  mail,    \* the mail the ticker is preparing
  mailed,  \* the mails that went out
  tap,     \* the requests
  lost     \* requests that raised after their claim

linkVars == <<link, mail, mailed, tap, lost>>

Unissued == [state |-> "unissued", alarm |-> None, to |-> None, acks |-> 0]
NoMail == [pc |-> "idle", alarm |-> None, to |-> None, token |-> None]
NoTap == [pc |-> "idle", token |-> None, page |-> "none"]

LinkInit ==
  /\ link = [t \in Token |-> Unissued]
  /\ mail = NoMail /\ mailed = {}
  /\ tap = [p \in Tap |-> NoTap]
  /\ lost = 0

-----------------------------------------------------------------------------
(* The mails *)

\* Mutant of LiveLinks: one link per alarm, whoever it was issued to.
LiveLinksOfAlarm(a, r) ==
  {t \in Token : link[t].state = "live" /\ link[t].alarm = a}

LiveLinks(a, r) ==
  {t \in Token : link[t].state = "live" /\ link[t].alarm = a /\ link[t].to = r}

\* _process found the alarm open and unacked; ensure_ack_token looks for a token
\* that is unused and has not expired.
MailLookUp(a, r) ==
  /\ mail.pc = "idle" /\ Actionable(a)
  /\ \/ \E t \in LiveLinks(a, r) :
          mail' = [pc |-> "ready", alarm |-> a, to |-> r, token |-> t]
     \/ /\ LiveLinks(a, r) = {}
        /\ mail' = [pc |-> "mint", alarm |-> a, to |-> r, token |-> None]
  /\ UNCHANGED <<link, mailed, tap, lost>>

MailMint(t) ==
  /\ mail.pc = "mint" /\ link[t].state = "unissued"
  /\ link' = [link EXCEPT ![t] =
       [state |-> "live", alarm |-> mail.alarm, to |-> mail.to, acks |-> 0]]
  /\ mail' = [mail EXCEPT !.pc = "ready", !.token = t]
  /\ UNCHANGED <<mailed, tap, lost>>

MailDeliver ==
  /\ mail.pc = "ready"
  /\ mailed' = mailed \cup {[alarm |-> mail.alarm, to |-> mail.to, token |-> mail.token]}
  /\ mail' = NoMail
  /\ UNCHANGED <<link, tap, lost>>

\* The lookup or the insert raises and the mail goes out without a link, or the
\* mail server refuses it.
MailWithoutLink ==
  /\ mail.pc # "idle"
  /\ mail' = NoMail
  /\ UNCHANGED <<link, mailed, tap, lost>>

-----------------------------------------------------------------------------
(* The link *)

\* The page a GET answers with: used, then expired, then closed, then the form.
FormPage(t) ==
  IF link[t].state = "used" THEN "already"
  ELSE IF link[t].state = "expired" THEN "expired"
  ELSE IF ~Stands(link[t].alarm) THEN "resolved"
  ELSE "form"

OpenForm(p, m) ==
  /\ tap[p].pc = "idle" /\ m \in mailed
  /\ tap' = [tap EXCEPT ![p] =
       [pc    |-> IF FormPage(m.token) = "form" THEN "form" ELSE "idle",
        token |-> m.token,
        page  |-> FormPage(m.token)]]
  /\ UNCHANGED <<link, mail, mailed, lost>>

\* Mutant of consume_ack_token: the token is only looked for.
ConsumeAnyToken(t) == link[t].state # "unissued"

\* consume_ack_token: one UPDATE, whose WHERE is the guard.
consume_ack_token(t) == link[t].state = "live"

Claim(p) ==
  /\ tap[p].pc = "form" /\ consume_ack_token(tap[p].token)
  /\ link' = [link EXCEPT ![tap[p].token].state = "used"]
  /\ tap' = [tap EXCEPT ![p].pc = "claimed"]
  /\ UNCHANGED <<mail, mailed, lost>>

ClaimRefused(p) ==
  /\ tap[p].pc = "form" /\ ~consume_ack_token(tap[p].token)
  /\ tap' = [tap EXCEPT ![p].pc = "idle", ![p].page = "already"]
  /\ UNCHANGED <<link, mail, mailed, lost>>

AckThroughLink(p) ==
  /\ tap[p].pc = "claimed"
  /\ FeedAck(link[tap[p].token].alarm)
  /\ link' = [link EXCEPT ![tap[p].token].acks = @ + 1]
  /\ tap' = [tap EXCEPT ![p].pc = "idle", ![p].page = "acknowledged"]
  /\ UNCHANGED <<mail, mailed, lost>>

\* The ack raises, or the process ends: the claim stays.
AckLost(p) ==
  /\ tap[p].pc = "claimed" /\ lost < MaxLost
  /\ lost' = lost + 1
  /\ tap' = [tap EXCEPT ![p] = NoTap]
  /\ UNCHANGED <<link, mail, mailed>>

Expire(t) ==
  /\ link[t].state = "live"
  /\ link' = [link EXCEPT ![t].state = "expired"]
  /\ UNCHANGED <<mail, mailed, tap, lost>>

LinkNext ==
  \/ \E c \in Check :
       /\ FeedOpen(c) \/ FeedChange(c)
       /\ UNCHANGED linkVars
  \/ \E p \in Tap : AckThroughLink(p)
  \/ /\ UNCHANGED feedVars
     /\ \/ \E c \in Check, r \in Recipient : opening[c] > 0 /\ MailLookUp(Latest(c), r)
        \/ \E t \in Token : MailMint(t) \/ Expire(t)
        \/ MailDeliver \/ MailWithoutLink
        \/ \E p \in Tap :
             Claim(p) \/ ClaimRefused(p) \/ AckLost(p) \/ \E m \in mailed : OpenForm(p, m)

-----------------------------------------------------------------------------
(* Properties *)

\* Two taps on one link, in whatever order their requests run, and whatever is
\* lost in between, write at most one ack (store.consume_ack_token).
LinkAcksOnce == \A t \in Token : link[t].acks <= 1

\* An address has at most one working link of an alarm at a time, and every
\* mail that carried it was sent to that address about that alarm: the ack
\* names the person in whose mailbox the link was (store.ensure_ack_token).
OneLinkPerReader ==
  /\ \A t, u \in Token :
       /\ link[t].state = "live" /\ link[u].state = "live"
       /\ link[t].alarm = link[u].alarm /\ link[t].to = link[u].to
       => t = u
  /\ \A m \in mailed : link[m.token].to = m.to /\ link[m.token].alarm = m.alarm
=============================================================================
