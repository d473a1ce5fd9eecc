------------------------- MODULE StudioDeskProofs ----------------------------
(***************************************************************************)
(* The pages of the creator and the configuration page, for any number of   *)
(* tabs, calls, workers, versions, sessions, reports, drafts, items, admins *)
(* and whatever else overlaps on them.                                      *)
(*                                                                          *)
(* The accounts (ChannelDesk): only the callback of a consent connects an   *)
(* account; the types are all that the action property needs.               *)
(*                                                                          *)
(* The contract (AgreementDesk): SignInv follows the version whose boxes    *)
(* were ticked from the page into the request and the contract (Honest).    *)
(* PaidInv says it of a payment: whatever Stripe reported as paid, and      *)
(* whatever a handler took up as paid, was paid by some session.            *)
(*                                                                          *)
(* The content plans (PlanningDesk): an approved plan has the jobs that it  *)
(* shows (Planned).  A draft asks the provider once: AskInv says that the   *)
(* number of a draft and its key are one on every way to the server         *)
(* (TurnsOf), and that a turn which was asked has left "pending".           *)
(*                                                                          *)
(* A video (VideoDesk): VideoInv says that what any row claims to be        *)
(* approved, the one in the table and each that a worker has loaded, was    *)
(* approved as one file with one text (Proven).  Approvals stay, so what    *)
(* was proven when a worker loaded it is so when it uploads.                *)
(*                                                                          *)
(* The configuration (ConfigDesk): the inductive invariant of the engines   *)
(* says what a test still under way is worth (Faithful): one whose row and  *)
(* key were not written since has tested what the row holds.  That of the   *)
(* prices says it of a PATCH that has loaded its row (Sound): what it will  *)
(* write was checked as a whole.                                            *)
(***************************************************************************)
EXTENDS ChannelDesk, AgreementDesk, PlanningDesk, VideoDesk, ConfigDesk, TLAPS

(* The accounts                                                             *)

AccountRows ==
    [status : {"none", "connected", "disconnected"}, token : Tokens \cup {NoToken},
     left : BOOLEAN]

ConsentRows == [phase : {"none", "asked", "gone"}, kind : Kinds]

ChannelCalls ==
    [op : {"callback", "disconnect", "refresh", "create", "update"}, kind : Kinds,
     phase : {"write", "pause", "ask", "store", "fail", "create", "update"},
     read : {"none", "connected", "disconnected", "paused", "running"},
     token : Tokens \cup {NoToken}]

ChannelTypes ==
    /\ account \in [Kinds -> AccountRows]
    /\ consent \in [Consents -> ConsentRows]
    /\ call \subseteq ChannelCalls

LEMMA ChannelAtFirst == ChannelInit => ChannelTypes
<1> SUFFICES ASSUME ChannelInit PROVE ChannelTypes
  OBVIOUS
<1>1. NoAccount \in AccountRows
  BY DEF NoAccount, AccountRows
<1>2. [phase |-> "none", kind |-> Channel] \in ConsentRows
  BY ChannelDeskAssumption DEF ConsentRows
<1>3. QED
  BY <1>1, <1>2 DEF ChannelInit, ChannelTypes

(* Calls that only open, move or end leave the accounts alone.             *)
LEMMA CallOpened ==
    ASSUME ChannelTypes,
           \/ \E k \in Kinds : LoadPage(k) \/ Disconnect(k)
           \/ \E s \in Consents, k \in Kinds : Connect(s, k)
           \/ \E s \in Consents : ConsentEnds(s)
           \/ \E s \in Consents, t \in Tokens : Callback(s, t)
           \/ Refresh \/ SaveNew \/ SaveKnown
           \/ \E t \in Tokens : RevokedAtGoogle(t)
           \/ \E paused \in BOOLEAN : SetPaused(paused)
    PROVE  ChannelTypes' /\ UNCHANGED account
<1>1. ASSUME NEW c \in ChannelCalls, Open(c), UNCHANGED <<account, consent>>
      PROVE  ChannelTypes' /\ UNCHANGED account
  BY <1>1 DEF Open, ChannelTypes
<1>2. ASSUME NEW k \in Kinds, LoadPage(k) PROVE ChannelTypes' /\ UNCHANGED account
  BY <1>2 DEF LoadPage, ChannelTypes
<1>3. ASSUME NEW k \in Kinds, Disconnect(k) PROVE ChannelTypes' /\ UNCHANGED account
  <2> DEFINE c == [op |-> "disconnect", kind |-> k, phase |-> "write",
                   read |-> account[k].status, token |-> account[k].token]
  <2>1. c \in ChannelCalls
    BY DEF ChannelTypes, AccountRows, ChannelCalls
  <2>2. Open(c) /\ UNCHANGED <<account, consent>>
    BY <1>3 DEF Disconnect
  <2> HIDE DEF c
  <2>3. QED
    BY <1>1, <2>1, <2>2
<1>4. ASSUME NEW s \in Consents, NEW k \in Kinds, Connect(s, k)
      PROVE  ChannelTypes' /\ UNCHANGED account
  BY <1>4 DEF Connect, ChannelTypes, ConsentRows
<1>5. ASSUME NEW s \in Consents, ConsentEnds(s) PROVE ChannelTypes' /\ UNCHANGED account
  BY <1>5 DEF ConsentEnds, ChannelTypes, ConsentRows
<1>6. ASSUME NEW s \in Consents, NEW t \in Tokens, Callback(s, t)
      PROVE  ChannelTypes' /\ UNCHANGED account
  <2> DEFINE c == [op |-> "callback", kind |-> consent[s].kind, phase |-> "write",
                   read |-> "none", token |-> t]
  <2>1. c \in ChannelCalls
    BY DEF ChannelTypes, ConsentRows, ChannelCalls
  <2>2. call' = call \cup {c} /\ consent' = [consent EXCEPT ![s].phase = "gone"]
        /\ UNCHANGED account
    BY <1>6 DEF Callback, Open
  <2> HIDE DEF c
  <2>3. QED
    BY <2>1, <2>2 DEF ChannelTypes, ConsentRows
<1>7. CASE Refresh
  <2> DEFINE c == [op |-> "refresh", kind |-> Channel, phase |-> "ask", read |-> "connected",
                   token |-> account[Channel].token]
  <2>1. c \in ChannelCalls
    BY ChannelDeskAssumption DEF ChannelTypes, AccountRows, ChannelCalls
  <2>2. Open(c) /\ UNCHANGED <<account, consent>>
    BY <1>7 DEF Refresh
  <2> HIDE DEF c
  <2>3. QED
    BY <1>1, <2>1, <2>2
<1>8. CASE SaveNew
  <2>1. [op |-> "create", kind |-> Channel, phase |-> "create", read |-> "none",
         token |-> NoToken] \in ChannelCalls
    BY ChannelDeskAssumption DEF ChannelCalls
  <2>2. QED
    BY <1>1, <1>8, <2>1 DEF SaveNew
<1>9. CASE SaveKnown
  <2> DEFINE read == IF Head(prefs) THEN "paused" ELSE "running"
             c == [op |-> "update", kind |-> Channel, phase |-> "update", read |-> read,
                   token |-> NoToken]
  <2>1. read \in {"paused", "running"}
    OBVIOUS
  <2>2. Open(c) /\ UNCHANGED <<account, consent>>
    BY <1>9 DEF SaveKnown
  <2> HIDE DEF read
  <2>3. c \in ChannelCalls
    BY <2>1, ChannelDeskAssumption DEF ChannelCalls
  <2> HIDE DEF c
  <2>4. QED
    BY <1>1, <2>2, <2>3
<1>10. CASE \/ \E t \in Tokens : RevokedAtGoogle(t)
            \/ \E paused \in BOOLEAN : SetPaused(paused)
  BY <1>10 DEF RevokedAtGoogle, SetPaused, ChannelTypes
<1>11. QED
  BY <1>2, <1>3, <1>4, <1>5, <1>6, <1>7, <1>8, <1>9, <1>10

Reconnected(k) ==
    account[k].status # "connected" /\ account'[k].status = "connected" =>
    \E c \in call : c.op = "callback" /\ c.kind = k /\ c \notin call'

(* Of the calls that write an account, only that of a consent says that it *)
(* is connected; a refresh writes nothing but the token.                   *)
LEMMA CallWrites ==
    ASSUME ChannelTypes, NEW c \in call, ChannelCall(c)
    PROVE  ChannelTypes' /\ \A k \in Kinds : Reconnected(k)
<1>1. /\ c \in ChannelCalls /\ c.kind \in Kinds /\ c.token \in Tokens \cup {NoToken}
      /\ account \in [Kinds -> AccountRows] /\ account[c.kind] \in AccountRows
      /\ UNCHANGED consent
  BY DEF ChannelTypes, ChannelCalls, ChannelCall, Persist, Disconnected, PauseContent, AskGoogle,
     StoreRefreshed, RefreshFailed, CreatePreference, UpdatePreference
<1>2. \A phase \in {"pause", "store", "fail"} : [c EXCEPT !.phase = phase] \in ChannelCalls
  BY <1>1 DEF ChannelCalls
<1>3. call' \subseteq ChannelCalls
  <2>1. \/ Ends(c)
        \/ \E phase \in {"pause", "store", "fail"} : Moves(c, phase)
    BY DEF ChannelCall, Persist, Disconnected, PauseContent, AskGoogle, StoreRefreshed,
       RefreshFailed, CreatePreference, UpdatePreference
  <2>2. QED
    BY <1>2, <2>1 DEF Ends, Moves, ChannelTypes
<1>4. ASSUME UNCHANGED account PROVE ChannelTypes' /\ \A k \in Kinds : Reconnected(k)
  BY <1>1, <1>3, <1>4 DEF ChannelTypes, Reconnected
<1>5. ASSUME NEW row \in AccountRows, account' = [account EXCEPT ![c.kind] = row],
             \/ row.status # "connected"
             \/ row.status = account[c.kind].status
             \/ c.op = "callback" /\ c \notin call'
      PROVE  ChannelTypes' /\ \A k \in Kinds : Reconnected(k)
  <2>1. ChannelTypes'
    BY <1>1, <1>3, <1>5 DEF ChannelTypes
  <2>2. ASSUME NEW k \in Kinds PROVE Reconnected(k)
    <3>1. CASE k = c.kind
      BY <1>1, <1>5, <3>1 DEF Reconnected
    <3>2. CASE k # c.kind
      BY <1>1, <1>5, <3>2 DEF Reconnected
    <3>3. QED
      BY <3>1, <3>2
  <2>3. QED
    BY <2>1, <2>2
<1>6. CASE Persist(c)
  <2> DEFINE row == [NoAccount EXCEPT !.status = "connected", !.token = c.token]
  <2>1. NoAccount \in AccountRows
    BY DEF NoAccount, AccountRows
  <2>2. row \in AccountRows
    BY <1>1, <2>1 DEF AccountRows
  <2>3. account' = [account EXCEPT ![c.kind] = row] /\ c.op = "callback" /\ c \notin call'
    BY <1>6 DEF Persist, Ends
  <2> HIDE DEF row
  <2>4. QED
    BY <1>5, <2>2, <2>3
<1>7. CASE Disconnected(c)
  <2>1. [status |-> "disconnected", token |-> NoToken, left |-> TRUE] \in AccountRows
    BY DEF AccountRows
  <2>2. QED
    BY <1>5, <1>7, <2>1 DEF Disconnected
<1>8. CASE StoreRefreshed(c)
  <2> DEFINE row == [account[c.kind] EXCEPT !.token = c.token]
  <2>1. row \in AccountRows /\ row.status = account[c.kind].status
    BY <1>1 DEF AccountRows
  <2>2. account' = [account EXCEPT ![c.kind] = row]
    BY <1>8 DEF StoreRefreshed, Refreshed
  <2> HIDE DEF row
  <2>3. QED
    BY <1>5, <2>1, <2>2
<1>9. CASE RefreshFailed(c)
  <2> DEFINE row == [account[c.kind] EXCEPT !.status = "disconnected"]
  <2>1. row \in AccountRows /\ row.status = "disconnected"
    BY <1>1 DEF AccountRows
  <2>2. account' = [account EXCEPT ![c.kind] = row]
    BY <1>9 DEF RefreshFailed
  <2> HIDE DEF row
  <2>3. QED
    BY <1>5, <2>1, <2>2
<1>10. CASE PauseContent(c) \/ AskGoogle(c) \/ CreatePreference(c) \/ UpdatePreference(c)
  BY <1>4, <1>10 DEF PauseContent, AskGoogle, CreatePreference, UpdatePreference
<1>11. QED
  BY <1>6, <1>7, <1>8, <1>9, <1>10 DEF ChannelCall

(* An account becomes connected only when the callback of a consent is     *)
(* written, for any number of tokens, consents and overlapping calls       *)
(* (refresh_channel_credentials).                                          *)
THEOREM ConsentReconnects == ChannelSpec => ReconnectsByConsent
<1>1. ChannelTypes /\ [ChannelNext]_channelVars
         => ChannelTypes' /\ [\A k \in Kinds : Reconnected(k)]_channelVars
  <2> SUFFICES ASSUME ChannelTypes, [ChannelNext]_channelVars
               PROVE  ChannelTypes' /\ [\A k \in Kinds : Reconnected(k)]_channelVars
    OBVIOUS
  <2>1. CASE UNCHANGED channelVars
    BY <2>1 DEF channelVars, ChannelTypes
  <2>2. CASE ChannelTypes' /\ UNCHANGED account
    BY <2>2 DEF Reconnected
  <2>3. ASSUME NEW c \in call, ChannelCall(c)
        PROVE  ChannelTypes' /\ [\A k \in Kinds : Reconnected(k)]_channelVars
    BY <2>3, CallWrites
  <2>4. QED
    BY <2>1, <2>2, <2>3, CallOpened DEF ChannelNext
<1>2. QED
  BY <1>1, ChannelAtFirst, PTL DEF ChannelSpec, ReconnectsByConsent, Reconnected

-----------------------------------------------------------------------------
(* The contract and the subscription                                        *)

(* What "the latest of the active versions" can be: 0 when there is none.  *)
Seen == {0} \cup {Max(some) : some \in SUBSET Versions}

RequestRows == [phase : {"idle", "asked", "checked", "locked"}, version : Seen, read : Seen,
                locked : SUBSET Nat]

TabRows == [version : Seen, signed : BOOLEAN, card : BOOLEAN, ticked : Seen,
            request : RequestRows]

ContractRows == [version : Seen, read : Seen, standing : {"active", "superseded"}]

(* A tab has ticked what it shows, and its request carries what it ticked. *)
Honest(tab) ==
    /\ tab.ticked # 0 => tab.ticked = tab.version
    /\ tab.request.version = tab.request.read

SignTypes ==
    /\ active \subseteq Versions
    /\ contracts \in Seq(ContractRows)
    /\ contractTab \in [Tabs -> TabRows]
    /\ subscription.card \in BOOLEAN

SignInv ==
    /\ SignTypes
    /\ \A t \in Tabs : Honest(contractTab[t])
    /\ SignedWasRead

LEMMA CurrentIsSeen == ASSUME active \subseteq Versions PROVE Current \in Seen
BY DEF Current, Seen

LEMMA SignAtFirst == AgreementInit => SignInv
<1> SUFFICES ASSUME AgreementInit PROVE SignInv
  OBVIOUS
<1>1. Idle \in RequestRows /\ Idle.version = 0 /\ Idle.read = 0 /\ 0 \in Seen
  BY DEF Idle, RequestRows, Seen
<1>2. subscription.card \in BOOLEAN
  <2>1. NoRow.card = FALSE /\ CardRow.card = TRUE
    BY DEF NoRow, CardRow
  <2>2. QED
    BY <2>1 DEF AgreementInit
<1>3. contractTab \in [Tabs -> TabRows] /\ \A t \in Tabs : Honest(contractTab[t])
  BY <1>1 DEF AgreementInit, TabRows, Honest
<1>4. active \subseteq Versions /\ contracts = <<>>
  BY DEF AgreementInit
<1>5. contracts \in Seq(ContractRows) /\ SignedWasRead
  BY <1>4 DEF SignedWasRead
<1>6. QED
  BY <1>2, <1>3, <1>4, <1>5 DEF SignInv, SignTypes

(* Only one tab changes.                                                   *)
LEMMA TabWritten ==
    ASSUME SignInv, NEW t \in Tabs, NEW tab \in TabRows, Honest(tab),
           contractTab' = [contractTab EXCEPT ![t] = tab],
           active' \subseteq Versions, UNCHANGED <<contracts, subscription>>
    PROVE  SignInv'
<1>1. contractTab' \in [Tabs -> TabRows] /\ \A u \in Tabs : Honest(contractTab'[u])
  BY DEF SignInv, SignTypes
<1>2. QED
  BY <1>1 DEF SignInv, SignTypes, SignedWasRead, Honest

LEMMA RequestWritten ==
    ASSUME SignInv, NEW t \in Tabs, NEW request \in RequestRows, request.version = request.read
    PROVE  /\ [contractTab[t] EXCEPT !.request = request] \in TabRows
           /\ Honest([contractTab[t] EXCEPT !.request = request])
BY DEF SignInv, SignTypes, TabRows, Honest

LEMMA PageKeeps ==
    ASSUME SignInv, NEW t \in Tabs, LoadContract(t) \/ TickConsents(t) \/ PressSign(t)
    PROVE  SignInv'
<1> DEFINE tab == contractTab[t]
<1>1. tab \in TabRows /\ Honest(tab) /\ active \subseteq Versions
  BY DEF SignInv, SignTypes
<1>2. CASE LoadContract(t)
  <2> DEFINE now == [tab EXCEPT !.version = Current, !.signed = SignedActive(Current) # {},
                        !.card = subscription.card, !.ticked = Reset(t)]
  <2>1. contractTab' = [contractTab EXCEPT ![t] = now]
        /\ UNCHANGED <<active, contracts, subscription>>
    BY <1>2 DEF LoadContract, billingVars
  <2>2. /\ Current \in Seen /\ 0 \in Seen /\ Reset(t) \in Seen
        /\ Reset(t) # 0 => Reset(t) = Current
    BY <1>1, CurrentIsSeen DEF Reset, Honest, TabRows, Seen
  <2>3. (SignedActive(Current) # {}) \in BOOLEAN /\ subscription.card \in BOOLEAN
    BY DEF SignInv, SignTypes
  <2>4. now \in TabRows /\ Honest(now)
    BY <1>1, <2>2, <2>3 DEF TabRows, Honest
  <2> HIDE DEF now
  <2>5. QED
    BY <1>1, <2>1, <2>4, TabWritten
<1>3. CASE TickConsents(t)
  <2> DEFINE now == [tab EXCEPT !.ticked = tab.version]
  <2>1. contractTab' = [contractTab EXCEPT ![t] = now]
        /\ UNCHANGED <<active, contracts, subscription>>
    BY <1>3 DEF TickConsents, billingVars
  <2>2. now \in TabRows /\ Honest(now)
    BY <1>1 DEF TabRows, Honest
  <2> HIDE DEF now
  <2>3. QED
    BY <1>1, <2>1, <2>2, TabWritten
<1>4. CASE PressSign(t)
  <2> DEFINE request == [Idle EXCEPT !.phase = "asked", !.version = tab.version,
                                     !.read = tab.ticked]
             now == [tab EXCEPT !.request = request]
  <2>1. /\ contractTab' = [contractTab EXCEPT ![t] = now] /\ tab.ticked # 0
        /\ UNCHANGED <<active, contracts, subscription>>
    BY <1>4 DEF PressSign, billingVars
  <2>2. tab.version \in Seen /\ tab.ticked \in Seen /\ tab.ticked = tab.version
    BY <1>1, <2>1 DEF TabRows, Honest
  <2>3. request \in RequestRows /\ request.version = request.read
    BY <2>2 DEF Idle, RequestRows
  <2> HIDE DEF request
  <2>4. now \in TabRows /\ Honest(now)
    BY <2>3, RequestWritten
  <2> HIDE DEF now
  <2>5. QED
    BY <1>1, <2>1, <2>4, TabWritten
<1>5. QED
  BY <1>2, <1>3, <1>4

LEMMA RequestKeeps ==
    ASSUME SignInv, NEW t \in Tabs, CheckVersion(t) \/ LockPrevious(t) \/ Sign(t)
    PROVE  SignInv'
<1> DEFINE tab == contractTab[t]
           request == tab.request
<1>1. /\ tab \in TabRows /\ Honest(tab) /\ active \subseteq Versions
      /\ request \in RequestRows /\ request.version = request.read
      /\ contractTab \in [Tabs -> TabRows]
  BY DEF SignInv, SignTypes, TabRows, Honest
<1>2. Idle \in RequestRows /\ Idle.version = Idle.read
  BY DEF Idle, RequestRows, Seen
<1>3. ASSUME NEW now \in RequestRows, now.version = now.read,
             contractTab' = [contractTab EXCEPT ![t].request = now],
             UNCHANGED <<active, contracts, subscription>>
      PROVE  SignInv'
  <2> DEFINE row == [tab EXCEPT !.request = now]
  <2>1. contractTab' = [contractTab EXCEPT ![t] = row]
    BY <1>3
  <2>2. row \in TabRows /\ Honest(row)
    BY <1>3, RequestWritten
  <2> HIDE DEF row
  <2>3. QED
    BY <1>1, <1>3, <2>1, <2>2, TabWritten
<1>4. CASE CheckVersion(t)
  <2> DEFINE checked == [request EXCEPT !.phase = "checked", !.version = request.version]
  <2>1. PICK now \in {checked, Idle} : contractTab' = [contractTab EXCEPT ![t].request = now]
    BY <1>4 DEF CheckVersion, VersionToSign
  <2>2. checked \in RequestRows /\ checked.version = checked.read
    BY <1>1 DEF RequestRows
  <2>3. UNCHANGED <<active, contracts, subscription>>
    BY <1>4 DEF CheckVersion, billingVars
  <2> HIDE DEF checked
  <2>4. QED
    BY <1>2, <1>3, <2>1, <2>2, <2>3
<1>5. CASE LockPrevious(t)
  <2> DEFINE previous == {n \in DOMAIN contracts : contracts[n].standing = "active"}
             now == [request EXCEPT !.phase = "locked", !.locked = previous]
  <2>1. contractTab' = [contractTab EXCEPT
           ![t].request.phase = "locked", ![t].request.locked = previous]
    BY <1>5 DEF LockPrevious
  <2>2. previous \in SUBSET Nat
    BY DEF SignInv, SignTypes
  <2> HIDE DEF previous
  <2>3. now \in RequestRows /\ now.version = now.read
    BY <1>1, <2>2 DEF RequestRows
  <2>4. contractTab' = [contractTab EXCEPT ![t].request = now]
    BY <1>1, <2>1
  <2>5. UNCHANGED <<active, contracts, subscription>>
    BY <1>5 DEF LockPrevious, billingVars
  <2> HIDE DEF now
  <2>6. QED
    BY <1>3, <2>3, <2>4, <2>5
<1>6. CASE Sign(t)
  <2> DEFINE kept == [n \in DOMAIN contracts |->
                        IF n \in request.locked THEN [contracts[n] EXCEPT !.standing = "superseded"]
                        ELSE contracts[n]]
             made == NewContract(request)
  <2>1. /\ contracts' = Append(kept, made)
        /\ contractTab' = [contractTab EXCEPT ![t].request = Idle]
        /\ UNCHANGED <<active, subscription>>
    BY <1>6 DEF Sign, billingVars
  <2>2. contracts \in Seq(ContractRows) /\ SignedWasRead
    BY DEF SignInv, SignTypes
  <2>3. \A n \in DOMAIN contracts : /\ kept[n] \in ContractRows
                                   /\ kept[n].version = kept[n].read
    <3> SUFFICES ASSUME NEW n \in DOMAIN contracts
                 PROVE  kept[n] \in ContractRows /\ kept[n].version = kept[n].read
      OBVIOUS
    <3>1. contracts[n] \in ContractRows /\ contracts[n].version = contracts[n].read
      BY <2>2 DEF SignedWasRead
    <3>2. kept[n] \in {contracts[n], [contracts[n] EXCEPT !.standing = "superseded"]}
      OBVIOUS
    <3> HIDE DEF kept
    <3>3. QED
      BY <3>1, <3>2 DEF ContractRows
  <2>4. made \in ContractRows /\ made.version = made.read
    BY <1>1 DEF NewContract, RequestRows, ContractRows
  <2>5. kept \in Seq(ContractRows) /\ Len(kept) = Len(contracts)
    <3>1. Len(contracts) \in Nat /\ DOMAIN contracts = 1 .. Len(contracts)
      BY <2>2
    <3>2. kept \in [1 .. Len(contracts) -> ContractRows]
      BY <2>3, <3>1
    <3> HIDE DEF kept
    <3>3. QED
      BY <3>1, <3>2
  <2> HIDE DEF kept, made
  <2>6. contracts' \in Seq(ContractRows) /\ SignedWasRead'
    BY <2>1, <2>2, <2>3, <2>4, <2>5 DEF SignedWasRead
  <2>7. /\ contractTab' \in [Tabs -> TabRows]
        /\ \A u \in Tabs : Honest(contractTab'[u])
    BY <1>2, <2>1, RequestWritten DEF SignInv, SignTypes
  <2>8. QED
    BY <2>1, <2>6, <2>7 DEF SignInv, SignTypes, Honest
<1>7. QED
  BY <1>4, <1>5, <1>6

-----------------------------------------------------------------------------
SubscriptionRows ==
    [plan : Plans, status : {"none", "trialing", "active", "past_due", "canceled"},
     card : BOOLEAN]

SessionRows ==
    [mode : {"none", "setup", "subscription"}, plan : Plans,
     phase : {"none", "open", "saved", "owed", "paid", "unpaid", "canceled"}]

Reports ==
    [type : {"completed", "updated", "invoice_paid", "payment_failed", "deleted", "setup_intent"},
     session : Sessions, paid : BOOLEAN]

Taking ==
    [event : {e \in Reports : e.type \in {"completed", "updated", "payment_failed"}},
     row : SubscriptionRows]

BillingTypes ==
    /\ subscription \in SubscriptionRows
    /\ session \in [Sessions -> SessionRows]
    /\ reports \subseteq Reports
    /\ handlers \subseteq Taking

SomePaid == \E s \in Sessions : session[s].phase \in {"paid", "unpaid", "canceled"}

(* What a report says of a payment is so, and stays so.                    *)
PaidInv ==
    /\ BillingTypes
    /\ subscription.status = "active" => SomePaid
    /\ \A e \in reports : e.paid \/ e.type = "invoice_paid" => SomePaid
    /\ \A h \in handlers : h.event.paid => SomePaid

LEMMA PaidAtFirst == AgreementInit => PaidInv
<1> SUFFICES ASSUME AgreementInit PROVE PaidInv
  OBVIOUS
<1>1. Free \in Plans
  BY DEF Plans
<1>2. NoRow \in SubscriptionRows /\ NoRow.status = "none"
  BY <1>1 DEF NoRow, SubscriptionRows
<1>3. CardRow \in SubscriptionRows /\ CardRow.status = "trialing"
  BY <1>2 DEF CardRow, SubscriptionRows
<1>4. [mode |-> "none", plan |-> Free, phase |-> "none"] \in SessionRows
  BY <1>1 DEF SessionRows
<1>5. QED
  BY <1>2, <1>3, <1>4 DEF AgreementInit, PaidInv, BillingTypes

(* A session that was paid stays so.                                       *)
LEMMA SessionMoves ==
    ASSUME PaidInv, NEW s \in Sessions, NEW now \in SessionRows,
           session' = [session EXCEPT ![s] = now],
           session[s].phase = "paid" => now.phase \in {"unpaid", "canceled"},
           session[s].phase \notin {"unpaid", "canceled"},
           UNCHANGED handlers, subscription' \in SubscriptionRows,
           subscription'.status = "active" => subscription.status = "active",
           \A e \in reports' : \/ e \in reports
                               \/ /\ e \in Reports
                                  /\ e.paid \/ e.type = "invoice_paid" =>
                                        now.phase \in {"paid", "unpaid", "canceled"}
    PROVE  PaidInv'
<1>1. session' \in [Sessions -> SessionRows] /\ session'[s] = now
      /\ \A r \in Sessions \ {s} : session'[r] = session[r]
  BY DEF PaidInv, BillingTypes
<1>2. SomePaid => SomePaid'
  BY <1>1 DEF SomePaid
<1>3. now.phase \in {"paid", "unpaid", "canceled"} => SomePaid'
  BY <1>1 DEF SomePaid
<1>4. reports' \subseteq Reports
  BY DEF PaidInv, BillingTypes
<1>5. BillingTypes'
  BY <1>1, <1>4 DEF PaidInv, BillingTypes
<1>6. \A e \in reports' : e.paid \/ e.type = "invoice_paid" => SomePaid'
  BY <1>2, <1>3 DEF PaidInv
<1>7. QED
  BY <1>2, <1>5, <1>6 DEF PaidInv

LEMMA PagesPay ==
    ASSUME PaidInv, NEW s \in Sessions,
           SetupPayment(s) \/ \E p \in PaidPlans : Checkout(s, p)
    PROVE  PaidInv'
<1>1. PICK p \in Plans, mode \in {"setup", "subscription"} :
         /\ session' = [session EXCEPT ![s] = [mode |-> mode, plan |-> p, phase |-> "open"]]
         /\ subscription' = RowFor(p)
  BY DEF SetupPayment, Checkout, Plans
<1>2. session[s].phase = "none" /\ UNCHANGED <<reports, handlers>>
  BY DEF SetupPayment, Checkout
<1>3. NoRow \in SubscriptionRows
  BY DEF NoRow, SubscriptionRows, Plans
<1>4. /\ RowFor(p) \in SubscriptionRows
      /\ RowFor(p).status = "active" => subscription.status = "active"
  <2>1. /\ [NoRow EXCEPT !.plan = p, !.status = "trialing"] \in SubscriptionRows
        /\ [NoRow EXCEPT !.plan = p, !.status = "trialing"].status = "trialing"
    BY <1>3 DEF SubscriptionRows
  <2>2. QED
    BY <2>1 DEF RowFor, PaidInv, BillingTypes
<1>5. [mode |-> mode, plan |-> p, phase |-> "open"] \in SessionRows
  BY DEF SessionRows
<1>6. QED
  BY <1>1, <1>2, <1>4, <1>5, SessionMoves

LEMMA StripePays ==
    ASSUME PaidInv, NEW s \in Sessions,
           StripeCompletes(s) \/ StripeCollects(s) \/ StripeEnds(s)
    PROVE  PaidInv'
<1> DEFINE Moved(phase) == [session[s] EXCEPT !.phase = phase]
<1>1. /\ session[s] \in SessionRows /\ subscription \in SubscriptionRows
      /\ UNCHANGED <<subscription, handlers>>
  BY DEF PaidInv, BillingTypes, StripeCompletes, StripeCollects, StripeEnds
<1>2. PICK phase \in {"saved", "paid", "owed", "unpaid", "canceled"},
           types \in SUBSET {"completed", "updated", "invoice_paid", "payment_failed", "deleted",
                             "setup_intent"},
           settled \in BOOLEAN :
         /\ session' = [session EXCEPT ![s].phase = phase]
         /\ Report(types, s, settled)
         /\ session[s].phase = "paid" => phase \in {"unpaid", "canceled"}
         /\ session[s].phase \notin {"unpaid", "canceled"}
         /\ settled \/ "invoice_paid" \in types => phase \in {"paid", "unpaid", "canceled"}
  <2>1. CASE StripeCompletes(s)
    <3>1. session[s].phase = "open"
      BY <2>1 DEF StripeCompletes
    <3>2. CASE /\ session' = [session EXCEPT ![s].phase = "saved"]
               /\ Report({"completed", "setup_intent"}, s, FALSE)
      BY <3>1, <3>2
    <3>3. CASE /\ session' = [session EXCEPT ![s].phase = "paid"]
               /\ Report({"completed", "updated", "invoice_paid"}, s, TRUE)
      BY <3>1, <3>3
    <3>4. CASE /\ session' = [session EXCEPT ![s].phase = "owed"]
               /\ Report({"completed"}, s, FALSE)
      BY <3>1, <3>4
    <3>5. QED
      BY <2>1, <3>2, <3>3, <3>4 DEF StripeCompletes
  <2>2. CASE StripeCollects(s)
    <3>1. /\ session[s].phase = "owed" /\ session' = [session EXCEPT ![s].phase = "paid"]
          /\ Report({"updated", "invoice_paid"}, s, TRUE)
      BY <2>2 DEF StripeCollects
    <3>2. QED
      BY <3>1
  <2>3. CASE StripeEnds(s)
    <3>1. session[s].phase = "paid"
      BY <2>3 DEF StripeEnds
    <3>2. CASE /\ session' = [session EXCEPT ![s].phase = "unpaid"]
               /\ Report({"updated", "payment_failed"}, s, FALSE)
      BY <3>1, <3>2
    <3>3. CASE /\ session' = [session EXCEPT ![s].phase = "canceled"]
               /\ Report({"deleted"}, s, FALSE)
      BY <3>1, <3>3
    <3>4. QED
      BY <2>3, <3>2, <3>3 DEF StripeEnds
  <2>4. QED
    BY <2>1, <2>2, <2>3
<1>3. Moved(phase) \in SessionRows /\ Moved(phase).phase = phase
  BY <1>1 DEF SessionRows
<1>4. session' = [session EXCEPT ![s] = Moved(phase)]
  BY <1>2
<1> HIDE DEF Moved
<1>5. \A e \in reports' : \/ e \in reports
                          \/ e.type \in types /\ e.session = s /\ e.paid = settled /\ e \in Reports
  BY <1>2 DEF Report, Reports
<1>6. \A e \in reports' : \/ e \in reports
                          \/ /\ e \in Reports
                             /\ e.paid \/ e.type = "invoice_paid" =>
                                   Moved(phase).phase \in {"paid", "unpaid", "canceled"}
  BY <1>2, <1>3, <1>5
<1> DEFINE now == Moved(phase)
<1>7. /\ now \in SessionRows /\ session' = [session EXCEPT ![s] = now]
      /\ session[s].phase = "paid" => now.phase \in {"unpaid", "canceled"}
  BY <1>2, <1>3, <1>4
<1> HIDE DEF now
<1>8. QED
  BY <1>1, <1>2, <1>6, <1>7, SessionMoves DEF now

LEMMA HandlersPay ==
    ASSUME PaidInv,
           \/ \E e \in reports : HandleAtOnce(e) \/ LoadRow(e)
           \/ \E h \in handlers : SaveRow(h)
    PROVE  PaidInv'
<1>0. BillingTypes
  BY DEF PaidInv
<1>1. ASSUME UNCHANGED session, reports' \subseteq reports, handlers' \subseteq handlers,
             subscription' \in SubscriptionRows,
             subscription'.status = "active" => SomePaid
      PROVE  PaidInv'
  <2>1. SomePaid => SomePaid'
    BY <1>1 DEF SomePaid
  <2>2. BillingTypes'
    BY <1>0, <1>1 DEF BillingTypes
  <2>3. QED
    BY <1>1, <2>1, <2>2 DEF PaidInv
<1>2. ASSUME NEW e \in reports, HandleAtOnce(e) PROVE PaidInv'
  <2>1. /\ e.type \in {"invoice_paid", "deleted", "setup_intent"}
        /\ reports' = reports \ {e} /\ UNCHANGED <<session, handlers>>
        /\ subscription' = WrittenAtOnce[e.type]
    BY <1>2 DEF HandleAtOnce, WrittenAtOnce
  <2>2. CASE e.type = "invoice_paid"
    <3>1. subscription' = [subscription EXCEPT !.status = "active"]
      BY <2>1, <2>2 DEF WrittenAtOnce
    <3>2. subscription' \in SubscriptionRows /\ SomePaid
      BY <1>0, <2>2, <3>1 DEF BillingTypes, SubscriptionRows, PaidInv
    <3>3. QED
      BY <1>1, <2>1, <3>2
  <2>3. CASE e.type = "deleted"
    <3>1. subscription' = [subscription EXCEPT !.status = "canceled"]
      BY <2>1, <2>3 DEF WrittenAtOnce
    <3>2. subscription' \in SubscriptionRows /\ subscription'.status = "canceled"
      BY <1>0, <3>1 DEF BillingTypes, SubscriptionRows
    <3>3. QED
      BY <1>1, <2>1, <3>2
  <2>4. CASE e.type = "setup_intent"
    <3>1. subscription' = [subscription EXCEPT !.card = TRUE]
      BY <2>1, <2>4 DEF WrittenAtOnce
    <3>2. subscription' \in SubscriptionRows /\ subscription'.status = subscription.status
      BY <1>0, <3>1 DEF BillingTypes, SubscriptionRows
    <3>3. QED
      BY <1>1, <2>1, <3>2 DEF PaidInv
  <2>5. QED
    BY <2>1, <2>2, <2>3, <2>4
<1>3. ASSUME NEW e \in reports, LoadRow(e) PROVE PaidInv'
  <2>1. /\ e \in Reports /\ e.type \in {"completed", "updated", "payment_failed"}
        /\ reports' = reports \ {e} /\ UNCHANGED <<session, subscription>>
        /\ handlers' = handlers \cup {[event |-> e, row |-> subscription]}
    BY <1>0, <1>3 DEF LoadRow, WrittenAtOnce, BillingTypes, Reports
  <2>2. [event |-> e, row |-> subscription] \in Taking
    BY <1>0, <2>1 DEF Taking, BillingTypes
  <2>3. BillingTypes'
    BY <1>0, <2>1, <2>2 DEF BillingTypes
  <2>4. SomePaid' = SomePaid
    BY <2>1 DEF SomePaid
  <2>5. \A h \in handlers' : h.event.paid => SomePaid
    BY <2>1 DEF PaidInv
  <2>6. QED
    BY <2>1, <2>3, <2>4, <2>5 DEF PaidInv
<1>4. ASSUME NEW h \in handlers, SaveRow(h) PROVE PaidInv'
  <2>1. /\ h.row \in SubscriptionRows /\ h.event \in Reports
        /\ h.event.type \in {"completed", "updated", "payment_failed"}
        /\ h.event.paid => SomePaid
        /\ subscription \in SubscriptionRows
        /\ subscription.status = "active" => SomePaid
    BY <1>0 DEF BillingTypes, Taking, PaidInv
  <2>2. /\ UNCHANGED <<session, reports>> /\ handlers' \subseteq handlers
        /\ h.event.type = "completed" => subscription' = CheckoutCompleted(h)
        /\ h.event.type = "updated" => subscription' = SubscriptionUpdated(h)
        /\ h.event.type = "payment_failed" => subscription' = PaymentFailed(h)
    BY <1>4 DEF SaveRow
  <2>3. session[h.event.session] \in SessionRows
    BY <1>0, <2>1 DEF BillingTypes, Reports
  <2>4. CASE h.event.type = "completed"
    <3>1. CASE GrantsAccess(h.event)
      <4>1. subscription' = [h.row EXCEPT !.plan = session[h.event.session].plan,
                                          !.status = "active"]
        BY <2>2, <2>4, <3>1 DEF CheckoutCompleted
      <4>2. session[h.event.session].plan \in Plans
        BY <2>3 DEF SessionRows
      <4>3. subscription' \in SubscriptionRows
        BY <2>1, <4>1, <4>2 DEF SubscriptionRows
      <4>4. SomePaid
        BY <2>1, <3>1 DEF GrantsAccess
      <4>5. QED
        BY <1>1, <2>2, <4>3, <4>4
    <3>2. CASE ~GrantsAccess(h.event)
      BY <1>1, <2>1, <2>2, <2>4, <3>2 DEF CheckoutCompleted
    <3>3. QED
      BY <3>1, <3>2
  <2>5. CASE h.event.type = "updated"
    <3> DEFINE status == IF h.event.paid THEN "active" ELSE "past_due"
    <3>1. subscription' = [h.row EXCEPT !.card = TRUE, !.status = status]
      BY <2>2, <2>5 DEF SubscriptionUpdated
    <3>2. status \in {"active", "past_due"} /\ (status = "active" => SomePaid)
      BY <2>1
    <3> HIDE DEF status
    <3>3. subscription' \in SubscriptionRows /\ subscription'.status = status
      BY <2>1, <3>1, <3>2 DEF SubscriptionRows
    <3>4. QED
      BY <1>1, <2>2, <3>2, <3>3
  <2>6. CASE h.event.type = "payment_failed"
    <3> DEFINE status == IF h.row.status = "active" THEN "past_due" ELSE h.row.status
    <3>1. subscription' = [subscription EXCEPT !.status = status]
      BY <2>2, <2>6 DEF PaymentFailed
    <3>2. status \in {"none", "trialing", "past_due", "canceled"}
      BY <2>1 DEF SubscriptionRows
    <3> HIDE DEF status
    <3>3. subscription' \in SubscriptionRows /\ subscription'.status # "active"
      BY <2>1, <3>1, <3>2 DEF SubscriptionRows
    <3>4. QED
      BY <1>1, <2>2, <3>3
  <2>7. QED
    BY <2>1, <2>4, <2>5, <2>6
<1>5. QED
  BY <1>2, <1>3, <1>4

LEMMA BothKept ==
    ASSUME SignInv, PaidInv, [AgreementNext]_agreementVars
    PROVE  SignInv' /\ PaidInv'
<1>1. ASSUME UNCHANGED billingVars PROVE PaidInv'
  BY <1>1 DEF billingVars, PaidInv, BillingTypes, SomePaid
<1>2. ASSUME UNCHANGED contractVars, PaidInv' PROVE SignInv'
  <2>1. subscription'.card \in BOOLEAN
    BY <1>2 DEF PaidInv, BillingTypes, SubscriptionRows
  <2>2. QED
    BY <1>2, <2>1 DEF contractVars, SignInv, SignTypes, SignedWasRead, Honest
<1>3. CASE ContractStep
  <2>1. UNCHANGED billingVars
    BY <1>3 DEF ContractStep, EditVersions, LoadContract, TickConsents, PressSign, CheckVersion,
       LockPrevious, Sign
  <2>2. ASSUME NEW v \in Versions, EditVersions(v) PROVE SignInv'
    <3>1. active' \subseteq Versions /\ UNCHANGED <<contracts, contractTab, subscription>>
      BY <2>2 DEF EditVersions, billingVars, SignInv, SignTypes
    <3>2. QED
      BY <3>1 DEF SignInv, SignTypes, SignedWasRead, Honest
  <2>3. QED
    BY <1>1, <1>3, <2>1, <2>2, PageKeeps, RequestKeeps DEF ContractStep
<1>4. CASE BillingStep
  <2>1. PaidInv'
    BY <1>4, PagesPay, StripePays, HandlersPay DEF BillingStep
  <2>2. UNCHANGED contractVars
    BY <1>4 DEF BillingStep, Checkout, SetupPayment, StripeCompletes, StripeCollects, StripeEnds,
       HandleAtOnce, LoadRow, SaveRow
  <2>3. QED
    BY <1>2, <2>1, <2>2
<1>5. CASE UNCHANGED agreementVars
  BY <1>1, <1>2, <1>5 DEF agreementVars
<1>6. QED
  BY <1>3, <1>4, <1>5 DEF AgreementNext

(* A contract is for the version that was read, for any number of tabs and *)
(* of versions published and retired (ContractPage, sign_contract).        *)
THEOREM ContractsWereRead == AgreementSpec => []SignedWasRead
<1>1. SignInv => SignedWasRead
  BY DEF SignInv
<1>2. QED
  BY <1>1, SignAtFirst, PaidAtFirst, BothKept, PTL DEF AgreementSpec

(* A subscription is active only after a payment, for any number of        *)
(* sessions and in whatever order reports come and handlers overlap        *)
(* (_handle_checkout_session_completed).                                   *)
THEOREM AccessWasPaid == AgreementSpec => []ActiveWasPaid
<1>1. PaidInv => ActiveWasPaid
  BY DEF PaidInv, ActiveWasPaid, SomePaid
<1>2. QED
  BY <1>1, SignAtFirst, PaidAtFirst, BothKept, PTL DEF AgreementSpec

-----------------------------------------------------------------------------
(* The content plans and the assistant                                      *)

PlanRows ==
    [status : {"ready", "approved"}, items : [Items -> [selected : BOOLEAN, text : Nat]]]

Planned ==
    /\ plan \in PlanRows
    /\ planShown \in [PlanTabs -> PlanRows]
    /\ ApprovedAsPlanned

LEMMA ItemWritten ==
    ASSUME NEW row \in PlanRows, NEW i \in Items, NEW b \in BOOLEAN, NEW text \in Nat
    PROVE  /\ [row EXCEPT !.items[i].selected = b] \in PlanRows
           /\ [row EXCEPT !.items[i].selected = b].status = row.status
           /\ [row EXCEPT !.items[i].text = text] \in PlanRows
           /\ [row EXCEPT !.items[i].text = text].status = row.status
<1> DEFINE ItemsOf == [Items -> [selected : BOOLEAN, text : Nat]]
<1>1. row.items \in ItemsOf /\ row.items[i] \in [selected : BOOLEAN, text : Nat]
  BY DEF PlanRows
<1>2. [row.items[i] EXCEPT !.selected = b] \in [selected : BOOLEAN, text : Nat]
  BY <1>1
<1>3. [row.items[i] EXCEPT !.text = text] \in [selected : BOOLEAN, text : Nat]
  BY <1>1
<1>4. /\ [row.items EXCEPT ![i].selected = b] \in ItemsOf
      /\ [row.items EXCEPT ![i].text = text] \in ItemsOf
  BY <1>1, <1>2, <1>3
<1>5. QED
  BY <1>4 DEF PlanRows

LEMMA PlanStepKeeps ==
    ASSUME Planned, PlanStep PROVE Planned'
<1>1. PICK t \in PlanTabs :
         \/ LoadPlan(t) \/ ApprovePlan(t)
         \/ \E i \in Items :
               \/ ToggleItem(t, i)
               \/ \E text \in 1 .. MaxTexts : SaveItem(t, i, text)
  BY DEF PlanStep
<1>2. planShown[t] \in PlanRows
  BY DEF Planned
<1>3. CASE LoadPlan(t)
  BY <1>3 DEF LoadPlan, Planned, ApprovedAsPlanned
<1>4. CASE ApprovePlan(t)
  <2> DEFINE chosen == {i \in Items : planShown[t].items[i].selected}
             rows == [i \in Items |-> [plan.items[i] EXCEPT !.selected = i \in chosen]]
  <2>1. /\ plan.status = "ready" /\ plan' = [status |-> "approved", items |-> rows]
        /\ jobsOf' = [i \in Items |->
              IF i \in chosen THEN Append(jobsOf[i], plan.items[i].text) ELSE jobsOf[i]]
        /\ UNCHANGED planShown
    BY <1>4 DEF ApprovePlan
  <2>2. rows \in [Items -> [selected : BOOLEAN, text : Nat]]
    <3> SUFFICES ASSUME NEW i \in Items
                 PROVE  [plan.items[i] EXCEPT !.selected = i \in chosen] \in [selected : BOOLEAN, text : Nat]
      OBVIOUS
    <3>1. plan.items[i] \in [selected : BOOLEAN, text : Nat]
      BY DEF Planned, PlanRows
    <3>2. (i \in chosen) \in BOOLEAN
      OBVIOUS
    <3> HIDE DEF chosen
    <3>3. QED
      BY <3>1, <3>2
  <2>3. \A i \in Items : rows[i].selected = (i \in chosen) /\ rows[i].text = plan.items[i].text
    BY DEF Planned, PlanRows
  <2> HIDE DEF chosen, rows
  <2>4. \A i \in Items : jobsOf[i] = <<>>
    BY <2>1 DEF Planned, ApprovedAsPlanned
  <2>5. ApprovedAsPlanned'
    <3> SUFFICES ASSUME NEW i \in Items
                 PROVE  jobsOf'[i] = IF rows[i].selected THEN <<rows[i].text>> ELSE <<>>
      BY <2>1 DEF ApprovedAsPlanned
    <3>1. Append(<<>>, plan.items[i].text) = <<plan.items[i].text>>
      OBVIOUS
    <3>2. QED
      BY <2>1, <2>3, <2>4, <3>1
  <2>6. QED
    BY <2>1, <2>2, <2>5 DEF Planned, PlanRows
<1>5. ASSUME NEW row \in PlanRows, plan.status = "ready", plan' = row, row.status = "ready",
             UNCHANGED <<planShown, jobsOf>>
      PROVE  Planned'
  BY <1>5 DEF Planned, ApprovedAsPlanned
<1>6. ASSUME NEW i \in Items, ToggleItem(t, i) PROVE Planned'
  <2> DEFINE b == ~planShown[t].items[i].selected
  <2>1. /\ plan' = [plan EXCEPT !.items[i].selected = b]
        /\ plan.status = "ready" /\ UNCHANGED <<planShown, jobsOf>>
    BY <1>6 DEF ToggleItem, Editable
  <2>2. b \in BOOLEAN
    OBVIOUS
  <2> HIDE DEF b
  <2>3. plan' \in PlanRows /\ plan'.status = "ready"
    BY <2>1, <2>2, ItemWritten DEF Planned
  <2>4. QED
    BY <1>5, <2>1, <2>3
<1>7. ASSUME NEW i \in Items, NEW text \in 1 .. MaxTexts, SaveItem(t, i, text) PROVE Planned'
  <2>1. /\ plan' = [plan EXCEPT !.items[i].text = text]
        /\ plan.status = "ready" /\ UNCHANGED <<planShown, jobsOf>>
    BY <1>7 DEF SaveItem, Editable
  <2>2. text \in Nat
    BY PlanningDeskAssumption
  <2>3. plan' \in PlanRows /\ plan'.status = "ready"
    BY <2>1, <2>2, ItemWritten DEF Planned
  <2>4. QED
    BY <1>5, <2>1, <2>3
<1>8. QED
  BY <1>1, <1>3, <1>4, <1>6, <1>7

(* An approved plan has the jobs that its page shows, for any number of    *)
(* items, tabs and edits (approve_proposal, PlanItemView).                 *)
THEOREM PlansAreKept == PlanningSpec => []ApprovedAsPlanned
<1>1. PlanningInit => Planned
  <2> SUFFICES ASSUME PlanningInit PROVE Planned
    OBVIOUS
  <2>1. ReadyPlan \in PlanRows /\ ReadyPlan.status = "ready"
    BY DEF ReadyPlan, PlanRows
  <2>2. QED
    BY <2>1 DEF PlanningInit, Planned, ApprovedAsPlanned
<1>2. Planned /\ [PlanningNext]_planningVars => Planned'
  <2> SUFFICES ASSUME Planned, [PlanningNext]_planningVars PROVE Planned'
    OBVIOUS
  <2>1. CASE UNCHANGED planVars
    BY <2>1 DEF planVars, Planned, ApprovedAsPlanned
  <2>2. ASSUME NEW k \in Asking, AskStep(k) PROVE UNCHANGED planVars
    BY <2>2 DEF AskStep, EditDraft, SendDraft, ProposeAfresh, LoseAnswer, AnswerAgain, Refuse,
       Accept, StartTurn, FinishTurn, WorkerDies, planVars
  <2>3. CASE SweepStep
    BY <2>1, <2>3 DEF SweepStep, SweepTurns, TurnAges, planVars
  <2>4. CASE UNCHANGED planningVars
    BY <2>1, <2>4 DEF planningVars
  <2>5. QED
    BY <2>1, <2>2, <2>3, <2>4, PlanStepKeeps DEF PlanningNext
<1>3. Planned => ApprovedAsPlanned
  BY DEF Planned
<1>4. QED
  BY <1>1, <1>2, <1>3, PTL DEF PlanningSpec

-----------------------------------------------------------------------------
(* A draft and its key are one number; a turn is asked from "pending" only. *)
Drafts == {[text |-> n, key |-> n] : n \in Keys}

Turns == [status : {"none", "pending", "running", "completed", "failed"},
          text : Nat, asked : Nat, old : BOOLEAN]

TurnsOf(key) ==
    {r \in Turns : /\ r.status # "none" => r.text = key
                   /\ r.status \in {"none", "pending"} => r.asked = 0
                   /\ r.asked <= 1}

AskInv ==
    /\ draft \in [Asking -> Drafts]
    /\ \A p \in posts : p.kind \in Asking /\ p.key \in Keys /\ p.text = p.key
    /\ turn \in [Asking -> [Keys -> Turns]]
    /\ \A k \in Asking : \A key \in Keys : turn[k][key] \in TurnsOf(key)
    /\ tasks \subseteq [kind : Asking, key : Keys, taken : BOOLEAN]
    /\ \A task \in tasks : turn[task.kind][task.key].status # "none"

LEMMA AskAtFirst == PlanningInit => AskInv
<1> SUFFICES ASSUME PlanningInit PROVE AskInv
  OBVIOUS
<1>1. 1 \in Keys /\ Keys \subseteq Nat
  BY PlanningDeskAssumption DEF Keys
<1>2. NoTurn \in Turns /\ \A key \in Keys : NoTurn \in TurnsOf(key)
  BY DEF NoTurn, Turns, TurnsOf
<1>3. [text |-> 1, key |-> 1] \in Drafts
  BY <1>1 DEF Drafts
<1>4. QED
  BY <1>2, <1>3 DEF PlanningInit, AskInv

LEMMA DraftMoves ==
    ASSUME AskInv, NEW k \in Asking, draft[k].key < MaxDrafts
    PROVE  NextDraft(k) \in [Asking -> Drafts]
<1>1. PICK n \in Keys : draft[k] = [text |-> n, key |-> n]
  BY DEF AskInv, Drafts
<1>2. n + 1 \in Keys
  BY <1>1, PlanningDeskAssumption DEF Keys
<1>3. NextDraft(k) = [draft EXCEPT ![k] = [text |-> n + 1, key |-> n + 1]]
  BY <1>1 DEF NextDraft
<1>4. QED
  BY <1>2, <1>3 DEF AskInv, Drafts

LEMMA PostMade ==
    ASSUME NEW k \in Asking, NEW d \in Drafts
    PROVE  Posted(k, d).kind \in Asking /\ Posted(k, d).key \in Keys
           /\ Posted(k, d).text = Posted(k, d).key
BY DEF Posted, Drafts

LEMMA TurnWritten ==
    ASSUME AskInv, NEW k \in Asking, NEW key \in Keys, NEW r \in TurnsOf(key), r.status # "none",
           turn' = [turn EXCEPT ![k][key] = r],
           draft' \in [Asking -> Drafts], posts' \subseteq posts,
           tasks' \subseteq [kind : Asking, key : Keys, taken : BOOLEAN],
           \A task \in tasks' : \/ task.kind = k /\ task.key = key
                                \/ turn[task.kind][task.key].status # "none"
    PROVE  AskInv'
<1>1. r \in Turns
  BY DEF TurnsOf
<1>2. turn' \in [Asking -> [Keys -> Turns]]
  BY <1>1 DEF AskInv
<1>3. \A j \in Asking : \A i \in Keys :
         turn'[j][i] = IF j = k /\ i = key THEN r ELSE turn[j][i]
  BY DEF AskInv
<1>4. \A j \in Asking : \A i \in Keys : turn'[j][i] \in TurnsOf(i)
  BY <1>3 DEF AskInv
<1>5. \A task \in tasks' : turn'[task.kind][task.key].status # "none"
  <2> SUFFICES ASSUME NEW task \in tasks' PROVE turn'[task.kind][task.key].status # "none"
    OBVIOUS
  <2>1. task.kind \in Asking /\ task.key \in Keys
    OBVIOUS
  <2>2. QED
    BY <1>3, <2>1
<1>6. QED
  BY <1>2, <1>4, <1>5 DEF AskInv

LEMMA TurnMade ==
    ASSUME NEW status \in {"pending", "failed"}, NEW key \in Keys
    PROVE  /\ [NoTurn EXCEPT !.text = key, !.status = status] \in TurnsOf(key)
           /\ [NoTurn EXCEPT !.text = key, !.status = status].status # "none"
<1>1. NoTurn \in Turns /\ NoTurn.asked = 0 /\ key \in Nat
  BY PlanningDeskAssumption DEF NoTurn, Turns, Keys
<1>2. status \in {"none", "pending", "running", "completed", "failed"} /\ status # "none"
  OBVIOUS
<1> DEFINE r == [NoTurn EXCEPT !.text = key, !.status = status]
<1>3. r \in Turns
  BY <1>1, <1>2 DEF Turns
<1>4. r.status = status /\ r.text = key /\ r.asked = 0
  BY <1>1 DEF Turns
<1>5. r \in TurnsOf(key)
  <2> HIDE DEF r
  <2>1. QED
    BY <1>2, <1>3, <1>4 DEF TurnsOf
<1>6. QED
  BY <1>2, <1>4, <1>5

LEMMA TurnsKept ==
    ASSUME AskInv, UNCHANGED turn, draft' \in [Asking -> Drafts],
           \A p \in posts' : p.kind \in Asking /\ p.key \in Keys /\ p.text = p.key,
           tasks' \subseteq tasks
    PROVE  AskInv'
BY DEF AskInv

LEMMA AnswerMoves ==
    ASSUME AskInv, NEW p \in posts, Answer(p) \/ Refusal(p)
    PROVE  draft' \in [Asking -> Drafts]
<1>1. draft \in [Asking -> Drafts] /\ p.kind \in Asking
  BY DEF AskInv
<1>2. CASE Awaited(p) /\ p.key < MaxDrafts /\ draft' = NextDraft(p.kind)
  BY <1>1, <1>2, DraftMoves DEF Awaited
<1>3. CASE UNCHANGED draft
  BY <1>1, <1>3
<1>4. QED
  BY <1>2, <1>3 DEF Answer, Refusal, AfterFailure

(* The form: a draft that changes gets a new key with it.                  *)
LEMMA FormKeeps ==
    ASSUME AskInv, NEW k \in Asking,
           EditDraft(k) \/ SendDraft(k) \/ ProposeAfresh(k) \/ LoseAnswer(k)
    PROVE  AskInv'
<1>0. draft \in [Asking -> Drafts]
  BY DEF AskInv
<1>1. CASE EditDraft(k)
  <2>1. draft' = NextDraft(k) /\ draft[k].key < MaxDrafts /\ UNCHANGED <<posts, turn, tasks>>
    BY <1>1 DEF EditDraft
  <2>2. draft' \in [Asking -> Drafts]
    BY <2>1, DraftMoves
  <2>3. QED
    BY <2>1, <2>2, TurnsKept DEF AskInv
<1>2. CASE SendDraft(k)
  <2>1. posts' = posts \cup {Posted(k, draft[k])} /\ UNCHANGED <<draft, turn, tasks>>
    BY <1>2 DEF SendDraft
  <2>2. draft[k] \in Drafts
    BY <1>0
  <2>3. \A p \in posts' : p.kind \in Asking /\ p.key \in Keys /\ p.text = p.key
    BY <2>1, <2>2, PostMade DEF AskInv
  <2>4. QED
    BY <1>0, <2>1, <2>3, TurnsKept
<1>3. CASE ProposeAfresh(k)
  <2>1. /\ posts' = posts \cup {Posted(k, draft'[k])} /\ UNCHANGED <<turn, tasks>>
        /\ draft' = NextDraft(k) /\ draft[k].key < MaxDrafts
    BY <1>3 DEF ProposeAfresh
  <2>2. draft' \in [Asking -> Drafts] /\ draft'[k] \in Drafts
    BY <2>1, DraftMoves
  <2>3. \A p \in posts' : p.kind \in Asking /\ p.key \in Keys /\ p.text = p.key
    BY <2>1, <2>2, PostMade DEF AskInv
  <2>4. QED
    BY <2>1, <2>2, <2>3, TurnsKept
<1>4. CASE LoseAnswer(k)
  BY <1>0, <1>4, TurnsKept DEF LoseAnswer, AfterFailure, AskInv
<1>5. QED
  BY <1>1, <1>2, <1>3, <1>4

LEMMA ServerKeeps ==
    ASSUME AskInv, NEW p \in posts, AnswerAgain(p) \/ Refuse(p) \/ Accept(p)
    PROVE  AskInv'
<1>1. posts' \subseteq posts /\ draft' \in [Asking -> Drafts]
  <2>1. (Answer(p) \/ Refusal(p)) /\ posts' = posts \ {p}
    BY DEF AnswerAgain, Refuse, Accept
  <2>2. QED
    BY <2>1, AnswerMoves
<1>2. p.kind \in Asking /\ p.key \in Keys /\ p.text = p.key /\ p.key \in Nat
  BY PlanningDeskAssumption DEF AskInv, Keys
<1>3. CASE AnswerAgain(p) \/ Refuse(p)
  <2>1. UNCHANGED <<turn, tasks>>
    BY <1>3 DEF AnswerAgain, Refuse
  <2>2. QED
    BY <1>1, <2>1, TurnsKept DEF AskInv
<1>4. CASE Accept(p)
  <2>1. PICK sent \in BOOLEAN :
           /\ tasks' = IF sent THEN tasks \cup {[kind |-> p.kind, key |-> p.key, taken |-> FALSE]}
                       ELSE tasks
           /\ turn' = [turn EXCEPT ![p.kind][p.key] =
                 [NoTurn EXCEPT !.text = p.text,
                     !.status = IF p.kind = Message /\ ~sent THEN "failed" ELSE "pending"]]
    BY <1>4 DEF Accept
  <2> DEFINE status == IF p.kind = Message /\ ~sent THEN "failed" ELSE "pending"
             r == [NoTurn EXCEPT !.text = p.key, !.status = status]
  <2>2. status \in {"pending", "failed"}
    OBVIOUS
  <2>3. turn' = [turn EXCEPT ![p.kind][p.key] = r]
    BY <1>2, <2>1
  <2> HIDE DEF status
  <2>4. r \in TurnsOf(p.key) /\ r.status # "none"
    BY <1>2, <2>2, TurnMade
  <2> HIDE DEF r
  <2>6. \A task \in tasks' : \/ task \in tasks
                             \/ task = [kind |-> p.kind, key |-> p.key, taken |-> FALSE]
    BY <2>1
  <2>7. tasks' \subseteq [kind : Asking, key : Keys, taken : BOOLEAN]
    <3>1. tasks \subseteq [kind : Asking, key : Keys, taken : BOOLEAN]
      BY DEF AskInv
    <3>2. [kind |-> p.kind, key |-> p.key, taken |-> FALSE]
             \in [kind : Asking, key : Keys, taken : BOOLEAN]
      BY <1>2
    <3>3. QED
      BY <2>6, <3>1, <3>2
  <2>8. \A task \in tasks' : \/ task.kind = p.kind /\ task.key = p.key
                             \/ turn[task.kind][task.key].status # "none"
    BY <2>6 DEF AskInv
  <2>9. QED
    BY <1>1, <1>2, <2>3, <2>4, <2>7, <2>8, TurnWritten
<1>5. QED
  BY <1>3, <1>4

LEMMA TurnAsked ==
    ASSUME NEW was \in Turns, NEW n \in Nat
    PROVE  /\ [was EXCEPT !.status = "running", !.asked = n] \in Turns
           /\ [was EXCEPT !.status = "running", !.asked = n].status = "running"
           /\ [was EXCEPT !.status = "running", !.asked = n].text = was.text
           /\ [was EXCEPT !.status = "running", !.asked = n].asked = n
<1>1. "running" \in {"none", "pending", "running", "completed", "failed"}
  OBVIOUS
<1>2. QED
  BY <1>1 DEF Turns

(* The workers: a turn is asked when it leaves "pending", which it does    *)
(* once.                                                                   *)
LEMMA TaskKeeps ==
    ASSUME AskInv, NEW task \in tasks, StartTurn(task) \/ FinishTurn(task) \/ WorkerDies(task)
    PROVE  AskInv'
<1> DEFINE k == task.kind
           key == task.key
           was == turn[k][key]
           TaskRows == [kind : Asking, key : Keys, taken : BOOLEAN]
<1>1. /\ k \in Asking /\ key \in Keys /\ task \in TaskRows /\ tasks \subseteq TaskRows
      /\ was \in TurnsOf(key) /\ was.status # "none" /\ was \in Turns
      /\ turn \in [Asking -> [Keys -> Turns]]
      /\ draft \in [Asking -> Drafts]
      /\ \A other \in tasks : turn[other.kind][other.key].status # "none"
  BY DEF AskInv
<1>2. CASE WorkerDies(task)
  BY <1>1, <1>2, TurnsKept DEF WorkerDies, AskInv
<1>3. CASE StartTurn(task)
  <2> DEFINE r == [was EXCEPT !.status = "running", !.asked = @ + 1]
  <2>1. /\ turn' = [turn EXCEPT ![k][key] = r] /\ was.status = "pending"
        /\ tasks' = (tasks \ {task}) \cup {[task EXCEPT !.taken = TRUE]}
        /\ UNCHANGED <<draft, posts>>
    BY <1>1, <1>3 DEF StartTurn, MayStart
  <2>2. r \in TurnsOf(key) /\ r.status # "none"
    <3>1. was.asked = 0 /\ was.text = key /\ was \in Turns
      BY <1>1, <2>1 DEF TurnsOf
    <3>2. r = [was EXCEPT !.status = "running", !.asked = 1]
      BY <3>1
    <3> HIDE DEF was, r
    <3>3. r \in Turns /\ r.status = "running" /\ r.text = key /\ r.asked = 1
      BY <3>1, <3>2, TurnAsked
    <3>4. QED
      BY <3>3 DEF TurnsOf
  <2>3. /\ [task EXCEPT !.taken = TRUE] \in TaskRows
        /\ [task EXCEPT !.taken = TRUE].kind = k /\ [task EXCEPT !.taken = TRUE].key = key
    BY <1>1
  <2>4. /\ tasks' \subseteq TaskRows
        /\ \A other \in tasks' : \/ other.kind = k /\ other.key = key
                                 \/ turn[other.kind][other.key].status # "none"
    BY <1>1, <2>1, <2>3
  <2> HIDE DEF r, k, key
  <2>5. QED
    BY <1>1, <2>1, <2>2, <2>4, TurnWritten
<1>4. CASE FinishTurn(task)
  <2>1. tasks' = tasks \ {task} /\ UNCHANGED <<draft, posts>>
    BY <1>4 DEF FinishTurn
  <2>2. PICK status \in {"completed", "failed"} :
           turn' = IF k = Message \/ was.status = "running"
                   THEN [turn EXCEPT ![k][key].status = status]
                   ELSE turn
    BY <1>4 DEF FinishTurn
  <2>3. CASE UNCHANGED turn
    BY <1>1, <2>1, <2>3, TurnsKept DEF AskInv
  <2>4. CASE turn' = [turn EXCEPT ![k][key].status = status]
    <3> DEFINE r == [was EXCEPT !.status = status]
    <3>1. turn' = [turn EXCEPT ![k][key] = r]
      BY <2>4
    <3>2. r \in TurnsOf(key) /\ r.status # "none"
      BY <1>1 DEF TurnsOf, Turns
    <3> HIDE DEF r, k, key
    <3>3. QED
      BY <1>1, <2>1, <3>1, <3>2, TurnWritten
  <2>5. QED
    BY <2>2, <2>3, <2>4
<1>5. QED
  BY <1>2, <1>3, <1>4

(* A message that is given up keeps its text, and was asked as often.      *)
LEMMA SweepKeeps == ASSUME AskInv, SweepStep PROVE AskInv'
<1>0. draft \in [Asking -> Drafts] /\ Message \in Asking
  BY PlanningDeskAssumption DEF AskInv
<1>1. CASE SweepTurns
  <2> DEFINE now == [key \in Keys |->
          IF turn[Message][key].old /\ turn[Message][key].status \in {"pending", "running"}
          THEN [turn[Message][key] EXCEPT !.status = "failed"] ELSE turn[Message][key]]
  <2>1. turn' = [turn EXCEPT ![Message] = now] /\ UNCHANGED <<draft, posts, tasks>>
    BY <1>1 DEF SweepTurns
  <2>2. \A key \in Keys : /\ now[key] \in TurnsOf(key) /\ now[key] \in Turns
                          /\ now[key].status = "none" => turn[Message][key].status = "none"
    <3> SUFFICES ASSUME NEW key \in Keys
                 PROVE  /\ now[key] \in TurnsOf(key) /\ now[key] \in Turns
                        /\ now[key].status = "none" => turn[Message][key].status = "none"
      OBVIOUS
    <3>1. turn[Message][key] \in TurnsOf(key) /\ turn[Message][key] \in Turns
      BY <1>0 DEF AskInv
    <3>2. CASE now[key] = turn[Message][key]
      BY <3>1, <3>2
    <3>3. CASE now[key] = [turn[Message][key] EXCEPT !.status = "failed"]
               /\ turn[Message][key].status \in {"pending", "running"}
      BY <3>1, <3>3 DEF TurnsOf, Turns
    <3>4. QED
      BY <3>2, <3>3
  <2>3. now \in [Keys -> Turns]
    BY <2>2
  <2> HIDE DEF now
  <2>4. /\ turn' \in [Asking -> [Keys -> Turns]] /\ turn'[Message] = now
        /\ \A k \in Asking \ {Message} : turn'[k] = turn[k]
    BY <1>0, <2>1, <2>3 DEF AskInv
  <2>5. \A k \in Asking : \A key \in Keys :
           /\ turn'[k][key] \in TurnsOf(key)
           /\ turn'[k][key].status = "none" => turn[k][key].status = "none"
    BY <2>2, <2>4 DEF AskInv
  <2>6. QED
    BY <2>1, <2>4, <2>5 DEF AskInv
<1>2. ASSUME NEW key \in Keys, TurnAges(key) PROVE AskInv'
  <2> DEFINE r == [turn[Message][key] EXCEPT !.old = TRUE]
  <2>1. turn[Message][key] \in TurnsOf(key) /\ turn[Message][key] \in Turns
    BY <1>0 DEF AskInv
  <2>2. /\ turn' = [turn EXCEPT ![Message][key] = r] /\ UNCHANGED <<draft, posts, tasks>>
        /\ turn[Message][key].status # "none"
    BY <1>2 DEF TurnAges
  <2>3. r \in TurnsOf(key) /\ r.status # "none"
    BY <2>1, <2>2 DEF TurnsOf, Turns
  <2>4. tasks' \subseteq [kind : Asking, key : Keys, taken : BOOLEAN]
        /\ \A task \in tasks' : turn[task.kind][task.key].status # "none"
    BY <2>2 DEF AskInv
  <2> HIDE DEF r
  <2>5. QED
    BY <1>0, <2>2, <2>3, <2>4, TurnWritten
<1>3. QED
  BY <1>1, <1>2 DEF SweepStep

(* A draft is asked once, for any number of drafts and of requests that    *)
(* are lost, late or sent again (AssistantView.post, respond).             *)
THEOREM DraftsAreAskedOnce == PlanningSpec => []AskedOnce
<1>1. AskInv /\ [PlanningNext]_planningVars => AskInv'
  <2> SUFFICES ASSUME AskInv, [PlanningNext]_planningVars PROVE AskInv'
    OBVIOUS
  <2>1. CASE UNCHANGED askVars
    BY <2>1 DEF askVars, AskInv
  <2>2. ASSUME NEW k \in Asking, AskStep(k) PROVE AskInv'
    BY <2>2, FormKeeps, ServerKeeps, TaskKeeps DEF AskStep
  <2>3. CASE PlanStep
    BY <2>1, <2>3 DEF PlanStep, LoadPlan, ToggleItem, SaveItem, ApprovePlan
  <2>4. CASE UNCHANGED planningVars
    BY <2>1, <2>4 DEF planningVars
  <2>5. QED
    BY <2>1, <2>2, <2>3, <2>4, SweepKeeps DEF PlanningNext
<1>2. AskInv => AskedOnce
  <2> SUFFICES ASSUME AskInv, NEW k \in Asking, NEW key \in Keys
               PROVE  /\ turn[k][key].asked <= 1
                      /\ \A other \in Keys \ {key} :
                            turn[k][key].asked > 0 /\ turn[k][other].asked > 0 =>
                            turn[k][key].text # turn[k][other].text
    BY DEF AskedOnce
  <2>1. \A one \in Keys : /\ turn[k][one].asked <= 1
                          /\ turn[k][one].asked > 0 => turn[k][one].text = one
    BY DEF AskInv, TurnsOf
  <2>2. QED
    BY <2>1
<1>3. QED
  BY <1>1, <1>2, AskAtFirst, PTL DEF PlanningSpec

-----------------------------------------------------------------------------
(* A video                                                                  *)

Statuses == {"none", "working", "awaiting", "review", "changes", "approved", "upload_queued",
             "uploading", "published", "ended", "failed"}
Tasks    == {"script", "textcheck", "film", "finalcheck", "upload"}
Columns  == {"script", "moderation", "film", "upload"}

VideoRows ==
    [status : Statuses, stage : Columns, cut : Nat, text : Nat,
     cutApproved : Nat, textApproved : Nat, onYouTube : BOOLEAN]

Posts == {AtRest} \cup [stage : Tasks \cup {"inserted"}, row : VideoRows]

(* Whatever a row says was approved was approved together.                 *)
Proven(row) ==
    row.cutApproved # 0 => <<row.cutApproved, row.textApproved>> \in approvals

VideoTypes ==
    /\ video \in VideoRows
    /\ queue \subseteq Tasks
    /\ calls \subseteq [kind : CallKinds, text : Nat, stage : Columns]
    /\ worker \in [Workers -> Posts]
    /\ uploads \in Seq(Nat \X Nat)

VideoInv ==
    /\ VideoTypes
    /\ Proven(video)
    /\ \A w \in Workers : Proven(worker[w].row)
    /\ PublishedAsApproved

LEMMA RestingPost ==
    /\ NoVideo \in VideoRows /\ AtRest \in Posts
    /\ AtRest.row = NoVideo /\ AtRest.row.cutApproved = 0
<1>1. NoVideo \in VideoRows
  BY DEF NoVideo, VideoRows, Statuses, Columns
<1>2. QED
  BY <1>1 DEF AtRest, Posts, NoVideo

LEMMA PostOf ==
    ASSUME NEW post \in Posts
    PROVE  /\ post.row \in VideoRows
           /\ post # AtRest => post \in [stage : Tasks \cup {"inserted"}, row : VideoRows]
BY RestingPost DEF Posts, AtRest

LEMMA VideoAtFirst == VideoInit => VideoInv
<1> SUFFICES ASSUME VideoInit PROVE VideoInv
  OBVIOUS
<1>1. VideoTypes
  BY RestingPost DEF VideoInit, VideoTypes
<1>2. Proven(video) /\ \A w \in Workers : Proven(worker[w].row)
  BY RestingPost DEF VideoInit, Proven, NoVideo
<1>3. PublishedAsApproved
  BY DEF VideoInit, PublishedAsApproved
<1>4. QED
  BY <1>1, <1>2, <1>3 DEF VideoInv

(* What was approved stays approved.                                       *)
LEMMA ApprovedForEver ==
    ASSUME VideoInv, VideoTypes', approvals \subseteq approvals',
           Proven(video)', UNCHANGED uploads,
           \A w \in Workers : worker'[w].row \in {worker[w].row, AtRest.row, video'}
    PROVE  VideoInv'
<1>1. PublishedAsApproved'
  BY DEF VideoInv, PublishedAsApproved
<1>2. \A w \in Workers : Proven(worker[w].row)'
  <2> SUFFICES ASSUME NEW w \in Workers PROVE Proven(worker[w].row)'
    OBVIOUS
  <2>1. Proven(worker[w].row)
    BY DEF VideoInv
  <2>2. QED
    BY <2>1, RestingPost DEF Proven
<1>3. QED
  BY <1>1, <1>2 DEF VideoInv

(* Every status but those of the final moderation leaves the proof alone.  *)
LEMMA StatusWritten ==
    ASSUME VideoInv, NEW status \in Statuses
    PROVE  /\ Become(status) \in VideoRows
           /\ Become(status).cutApproved = video.cutApproved
           /\ Become(status).textApproved = video.textApproved
           /\ Become(status).text = video.text
BY DEF VideoInv, VideoTypes, VideoRows, Become

LEMMA CallDone ==
    ASSUME VideoInv, NEW c \in calls, NEW row \in VideoRows, NEW stages \in SUBSET Tasks,
           Done(c, row, stages), approvals \subseteq approvals',
           row.cutApproved # 0 => <<row.cutApproved, row.textApproved>> \in approvals',
           UNCHANGED <<worker, uploads>>
    PROVE  VideoInv'
<1>1. VideoTypes' /\ video' = row
  BY DEF Done, VideoInv, VideoTypes
<1>2. Proven(video)'
  BY <1>1 DEF Proven
<1>3. QED
  BY <1>1, <1>2, ApprovedForEver

LEMMA CallStatus ==
    ASSUME VideoInv, NEW c \in calls, NEW status \in Statuses, NEW stages \in SUBSET Tasks,
           Done(c, Become(status), stages), UNCHANGED <<approvals, worker, uploads>>
    PROVE  VideoInv'
<1> DEFINE row == Become(status)
<1>1. /\ row \in VideoRows /\ Done(c, row, stages)
      /\ row.cutApproved # 0 => <<row.cutApproved, row.textApproved>> \in approvals'
  BY StatusWritten DEF VideoInv, Proven
<1> HIDE DEF row
<1>2. QED
  BY <1>1, CallDone

(* A call of a page: only a moderator who lets the final moderation pass   *)
(* writes a proof, with what is approved by it.                            *)
LEMMA CallKeeps ==
    ASSUME VideoInv, NEW c \in calls, CallStep(c)
    PROVE  VideoInv'
<1> USE DEF Statuses, Tasks
<1>1. c.text \in Nat
  BY DEF VideoInv, VideoTypes
<1>2. CASE Approve(c)
  <2>1. Done(c, Become("approved"), {"upload"}) /\ UNCHANGED <<approvals, worker, uploads>>
    BY <1>2 DEF Approve
  <2>2. QED
    BY <2>1, CallStatus
<1>3. CASE Reject(c)
  <2>1. Done(c, Become("ended"), {}) /\ UNCHANGED <<approvals, worker, uploads>>
    BY <1>3 DEF Reject
  <2>2. QED
    BY <2>1, CallStatus
<1>4. CASE RequestChanges(c)
  <2>1. PICK stage \in {"script", "film"} : Done(c, Become("changes"), {stage})
    BY <1>4 DEF RequestChanges
  <2>2. UNCHANGED <<approvals, worker, uploads>> /\ {stage} \in SUBSET Tasks
    BY <1>4 DEF RequestChanges
  <2>3. QED
    BY <2>1, <2>2, CallStatus
<1>5. CASE EditText(c)
  <2> DEFINE row == Unapproved([Become("working") EXCEPT !.text = @ + 1])
  <2>1. row \in VideoRows /\ row.cutApproved = 0
    <3>1. Become("working") \in VideoRows
      BY StatusWritten
    <3>2. [Become("working") EXCEPT !.text = @ + 1] \in VideoRows
      BY <3>1 DEF VideoRows
    <3>3. QED
      BY <3>2 DEF VideoRows, Unapproved
  <2>2. Done(c, row, {"textcheck"}) /\ UNCHANGED <<approvals, worker, uploads>>
    BY <1>5 DEF EditText
  <2> HIDE DEF row
  <2>3. QED
    BY <2>1, <2>2, CallDone
<1>6. CASE Decide(c)
  <2>0. UNCHANGED <<worker, uploads>>
    BY <1>6 DEF Decide
  <2>1. CASE Done(c, Become("ended"), {}) /\ UNCHANGED approvals
    BY <2>0, <2>1, CallStatus
  <2>2. CASE Done(c, Become("working"), {"film"}) /\ UNCHANGED approvals
    BY <2>0, <2>2, CallStatus
  <2>3. CASE /\ approvals' = approvals \cup {<<video.cut, c.text>>}
             /\ \E status \in AfterPass : Done(c, PassFinal(c.text, status), Sent(status))
    <3>1. PICK status \in AfterPass : Done(c, PassFinal(c.text, status), Sent(status))
      BY <2>3
    <3> DEFINE row == PassFinal(c.text, status)
    <3>2. /\ row \in VideoRows /\ row.cutApproved = video.cut /\ row.textApproved = c.text
          /\ Sent(status) \in SUBSET Tasks
      BY <1>1 DEF VideoInv, VideoTypes, VideoRows, PassFinal, AfterPass, Sent
    <3>3. Done(c, row, Sent(status))
      BY <3>1
    <3> HIDE DEF row
    <3>4. QED
      BY <2>0, <2>3, <3>2, <3>3, CallDone
  <2>4. QED
    BY <1>6, <2>1, <2>2, <2>3 DEF Decide
<1>7. CASE RetryJob(c)
  <2>1. PICK stage \in Tasks : Done(c, Become("working"), {stage})
    BY <1>7 DEF RetryJob
  <2>2. UNCHANGED <<approvals, worker, uploads>> /\ {stage} \in SUBSET Tasks
    BY <1>7 DEF RetryJob
  <2>3. QED
    BY <2>1, <2>2, CallStatus
<1>8. CASE Expire(c)
  <2>1. UNCHANGED <<approvals, worker, uploads>>
    BY <1>8 DEF Expire
  <2>2. CASE Done(c, Become("ended"), {})
    BY <2>1, <2>2, CallStatus
  <2>3. CASE Done(c, Become("upload_queued"), {"upload"})
    BY <2>1, <2>3, CallStatus
  <2>4. QED
    BY <1>8, <2>2, <2>3 DEF Expire
<1>9. QED
  BY <1>2, <1>3, <1>4, <1>5, <1>6, <1>7, <1>8 DEF CallStep

LEMMA WorkerEnds ==
    ASSUME VideoInv, NEW w \in Workers, Ended(w),
           video' \in VideoRows, Proven(video)', queue' \subseteq Tasks,
           approvals \subseteq approvals', UNCHANGED <<calls, uploads>>
    PROVE  VideoInv'
<1>1. /\ worker' \in [Workers -> Posts]
      /\ \A u \in Workers : worker'[u].row \in {worker[u].row, AtRest.row, video'}
  BY RestingPost DEF Ended, VideoInv, VideoTypes
<1>2. VideoTypes'
  BY <1>1 DEF VideoInv, VideoTypes
<1>3. QED
  BY <1>1, <1>2, ApprovedForEver

LEMMA StatusEnds ==
    ASSUME VideoInv, NEW w \in Workers, Ended(w), NEW status \in Statuses,
           video' = Become(status), queue' \subseteq Tasks, UNCHANGED <<approvals, calls, uploads>>
    PROVE  VideoInv'
<1>1. video' \in VideoRows /\ Proven(video)'
  BY StatusWritten DEF VideoInv, Proven
<1>2. QED
  BY <1>1, WorkerEnds

(* The worker's row is the one it loaded, with the proof it had then.      *)
LEMMA BeginKeeps ==
    ASSUME VideoInv, NEW w \in Workers, NEW stage \in queue, Begin(w, stage)
    PROVE  VideoInv'
<1> DEFINE begun == [video EXCEPT
            !.status = IF stage = "upload" THEN "uploading" ELSE "working",
            !.stage = IF stage \in {"textcheck", "finalcheck"} THEN "moderation" ELSE stage]
<1>1. stage \in Tasks
  BY DEF VideoInv, VideoTypes
<1>2. /\ begun \in VideoRows /\ begun.cutApproved = video.cutApproved
      /\ begun.textApproved = video.textApproved
  BY <1>1 DEF VideoInv, VideoTypes, VideoRows, Statuses, Tasks, Columns
<1>3. /\ video' = begun /\ worker' = [worker EXCEPT ![w] = [stage |-> stage, row |-> begun]]
      /\ queue' \subseteq queue /\ UNCHANGED <<calls, approvals, uploads>>
  BY DEF Begin, Taken
<1> HIDE DEF begun
<1>4. [stage |-> stage, row |-> begun] \in Posts
  BY <1>1, <1>2 DEF Posts
<1>5. /\ worker' \in [Workers -> Posts]
      /\ \A u \in Workers : worker'[u].row \in {worker[u].row, AtRest.row, video'}
  BY <1>3, <1>4 DEF VideoInv, VideoTypes
<1>6. VideoTypes' /\ Proven(video)'
  BY <1>2, <1>3, <1>5 DEF VideoInv, VideoTypes, Proven
<1>7. QED
  BY <1>3, <1>5, <1>6, ApprovedForEver

LEMMA FinalMakesProof ==
    ASSUME VideoInv, NEW w \in Workers, CheckFinal(w)
    PROVE  VideoInv'
<1>0. Ended(w) /\ UNCHANGED <<calls, uploads>> /\ queue \subseteq Tasks
  BY DEF CheckFinal, VideoInv, VideoTypes
<1>1. ASSUME NEW status \in AfterPass, video' = PassFinal(worker[w].row.text, status),
             approvals' = approvals \cup {<<video.cut, worker[w].row.text>>},
             SendOn(Sent(status))
      PROVE  VideoInv'
  <2>1. worker[w].row.text \in Nat
    BY PostOf DEF VideoInv, VideoTypes, VideoRows
  <2>2. /\ video' \in VideoRows /\ video'.cutApproved = video.cut
        /\ video'.textApproved = worker[w].row.text
    BY <1>1, <2>1 DEF VideoInv, VideoTypes, VideoRows, PassFinal, AfterPass, Statuses
  <2>3. queue' \subseteq Tasks
    BY <1>0, <1>1 DEF SendOn, Sent, Tasks
  <2>4. QED
    BY <1>0, <1>1, <2>2, <2>3, WorkerEnds DEF Proven
<1>2. ASSUME NEW status \in {"review", "ended"}, video' = Become(status),
             UNCHANGED <<queue, approvals>>
      PROVE  VideoInv'
  BY <1>0, <1>2, StatusEnds DEF Statuses
<1>3. QED
  BY <1>1, <1>2 DEF CheckFinal

(* The upload carries the file and the text of the proof it loaded, which  *)
(* it compares with the file as it is now.                                 *)
LEMMA InsertKeeps ==
    ASSUME VideoInv, NEW w \in Workers, Insert(w)
    PROVE  VideoInv'
<1> DEFINE sent == <<video.cut, worker[w].row.text>>
<1>0. worker[w] \in [stage : Tasks \cup {"inserted"}, row : VideoRows]
  BY PostOf DEF Insert, At, AtRest, VideoInv, VideoTypes
<1>1. sent \in Nat \X Nat /\ uploads \in Seq(Nat \X Nat)
  BY <1>0 DEF VideoInv, VideoTypes, VideoRows
<1>2. sent \in approvals
  BY DEF Insert, TextIsApproved, FileIsApproved, VideoInv, Proven
<1>3. /\ uploads' = Append(uploads, sent) /\ UNCHANGED <<video, calls, queue, approvals>>
      /\ worker' = [worker EXCEPT ![w].stage = "inserted"]
  BY DEF Insert
<1> HIDE DEF sent
<1>4. uploads' \in Seq(Nat \X Nat)
  BY <1>1, <1>3
<1>5. PublishedAsApproved'
  BY <1>1, <1>2, <1>3 DEF VideoInv, PublishedAsApproved
<1>6. worker' \in [Workers -> Posts] /\ \A u \in Workers : worker'[u].row = worker[u].row
  <2>1. [worker[w] EXCEPT !.stage = "inserted"] \in Posts
    BY <1>0 DEF Posts
  <2>2. QED
    BY <1>3, <2>1 DEF VideoInv, VideoTypes
<1>7. QED
  BY <1>3, <1>4, <1>5, <1>6 DEF VideoInv, VideoTypes, Proven

LEMMA WorkerKeeps ==
    ASSUME VideoInv, NEW w \in Workers, WorkerStep(w)
    PROVE  VideoInv'
<1>0. video \in VideoRows /\ queue \subseteq Tasks /\ worker[w] \in Posts /\ Proven(video)
  BY DEF VideoInv, VideoTypes
<1>1. ASSUME NEW stage \in queue, Begin(w, stage) PROVE VideoInv'
  BY <1>1, BeginKeeps
<1>2. CASE WriteScript(w)
  <2>1. /\ video' \in VideoRows /\ video'.cutApproved = video.cutApproved
        /\ video'.textApproved = video.textApproved
    BY <1>0, <1>2 DEF WriteScript, VideoRows
  <2>2. queue' \subseteq Tasks
    BY <1>0, <1>2 DEF WriteScript, SendOn, Tasks
  <2>3. QED
    BY <1>0, <1>2, <2>1, <2>2, WorkerEnds DEF WriteScript, Proven
<1>3. CASE CheckText(w)
  <2>1. PICK status \in {"working", "review", "ended"} : video' = Become(status)
    BY <1>3 DEF CheckText
  <2>2. queue' \subseteq Tasks
    BY <1>0, <1>3 DEF CheckText, SendOn, Tasks
  <2>3. Ended(w) /\ UNCHANGED <<approvals, calls, uploads>> /\ status \in Statuses
    BY <1>3 DEF CheckText, Statuses
  <2>4. QED
    BY <2>1, <2>2, <2>3, StatusEnds
<1>4. CASE MakeFilm(w)
  <2>1. worker[w].row.text \in Nat
    BY <1>0, PostOf DEF VideoRows
  <2>2. /\ video' \in VideoRows /\ video'.cutApproved = video.cutApproved
        /\ video'.textApproved = video.textApproved
    <3> DEFINE cut == IF worker[w].row.cut = 0 THEN video.cut + 1 ELSE video.cut
    <3>1. cut \in Nat
      BY <1>0 DEF VideoRows
    <3>2. video' = [video EXCEPT !.text = worker[w].row.text, !.cut = cut]
      BY <1>4 DEF MakeFilm
    <3> HIDE DEF cut
    <3>3. QED
      BY <1>0, <2>1, <3>1, <3>2 DEF VideoRows
  <2>3. queue' \subseteq Tasks
    BY <1>0, <1>4 DEF MakeFilm, SendOn, Tasks
  <2>4. QED
    BY <1>0, <1>4, <2>2, <2>3, WorkerEnds DEF MakeFilm, Proven
<1>5. CASE CheckFinal(w)
  BY <1>5, FinalMakesProof
<1>6. CASE Insert(w)
  BY <1>6, InsertKeeps
<1>7. CASE Publish(w)
  <2>1. /\ video' \in VideoRows /\ video'.cutApproved = video.cutApproved
        /\ video'.textApproved = video.textApproved
    <3>1. /\ Become("published") \in VideoRows
          /\ Become("published").cutApproved = video.cutApproved
          /\ Become("published").textApproved = video.textApproved
      BY StatusWritten DEF Statuses
    <3>2. video' = [Become("published") EXCEPT !.onYouTube = TRUE]
      BY <1>7 DEF Publish
    <3>3. QED
      BY <3>1, <3>2 DEF VideoRows
  <2>2. Ended(w) /\ UNCHANGED <<queue, approvals, calls, uploads>>
    BY <1>7 DEF Publish
  <2>3. QED
    BY <1>0, <2>1, <2>2, WorkerEnds DEF Proven
<1>8. CASE FailJob(w)
  BY <1>0, <1>8, StatusEnds DEF FailJob, Statuses
<1>9. CASE Postpone(w)
  <2>1. queue' \subseteq Tasks
    BY <1>0, <1>9 DEF Postpone, SendOn, Tasks
  <2>2. QED
    BY <1>9, <2>1, StatusEnds DEF Postpone, Statuses
<1>10. CASE WorkerGoes(w)
  <2>2. worker[w].stage \in Tasks \cup {"inserted"}
    BY <1>0, <1>10, PostOf DEF WorkerGoes
  <2>3. queue' \subseteq Tasks
    BY <1>0, <1>10, <2>2 DEF WorkerGoes, At, Tasks
  <2>4. QED
    BY <1>0, <1>10, <2>3, WorkerEnds DEF WorkerGoes, Proven
<1>11. QED
  BY <1>1, <1>2, <1>3, <1>4, <1>5, <1>6, <1>7, <1>8, <1>9, <1>10 DEF WorkerStep

(* What goes to YouTube was approved as one file with one text, for any    *)
(* number of workers, edits, cuts, overlapping calls and repeated          *)
(* deliveries (upload_job_video, moderation_proof).                        *)
THEOREM UploadsAreApproved == VideoSpec => []PublishedAsApproved
<1>1. VideoInv /\ [VideoNext]_videoVars => VideoInv'
  <2> SUFFICES ASSUME VideoInv, [VideoNext]_videoVars PROVE VideoInv'
    OBVIOUS
  <2>1. CASE GenerateNow
    <3>1. video' = [NoVideo EXCEPT !.status = "working"] /\ queue' = {"script"}
          /\ UNCHANGED <<calls, worker, approvals, uploads>>
      BY <2>1 DEF GenerateNow
    <3>2. video' \in VideoRows /\ video'.cutApproved = 0
      BY <3>1, RestingPost DEF VideoRows, Statuses, NoVideo
    <3>3. VideoTypes' /\ Proven(video)'
      BY <3>1, <3>2 DEF VideoInv, VideoTypes, Tasks, Proven
    <3>4. QED
      BY <3>1, <3>3, ApprovedForEver
  <2>2. CASE UNCHANGED <<video, calls, queue, worker, approvals, uploads>>
    BY <2>2 DEF VideoInv, VideoTypes, PublishedAsApproved, Proven
  <2>3. CASE LoadVideo
    BY <2>2, <2>3 DEF LoadVideo
  <2>4. ASSUME NEW kind \in CallKinds, Press(kind) PROVE VideoInv'
    <3>1. [kind |-> kind, text |-> video.text, stage |-> video.stage]
             \in [kind : CallKinds, text : Nat, stage : Columns]
      BY DEF VideoInv, VideoTypes, VideoRows
    <3>2. calls' \subseteq [kind : CallKinds, text : Nat, stage : Columns]
      BY <2>4, <3>1 DEF Press, VideoInv, VideoTypes
    <3>3. UNCHANGED <<video, queue, worker, approvals, uploads>>
      BY <2>4 DEF Press
    <3>4. VideoTypes' /\ Proven(video)'
      BY <3>2, <3>3 DEF VideoInv, VideoTypes, Proven
    <3>5. QED
      BY <3>3, <3>4, ApprovedForEver
  <2>5. ASSUME NEW c \in calls, CallStep(c) PROVE VideoInv'
    BY <2>5, CallKeeps
  <2>6. ASSUME NEW stage \in queue, Skip(stage) PROVE VideoInv'
    BY <2>6 DEF Skip, VideoInv, VideoTypes, PublishedAsApproved, Proven
  <2>7. ASSUME NEW w \in Workers, WorkerStep(w) PROVE VideoInv'
    BY <2>7, WorkerKeeps
  <2>8. QED
    BY <2>1, <2>2, <2>3, <2>4, <2>5, <2>6, <2>7 DEF VideoNext, videoVars
<1>2. VideoInv => PublishedAsApproved
  BY DEF VideoInv
<1>3. QED
  BY <1>1, <1>2, VideoAtFirst, PTL DEF VideoSpec

-----------------------------------------------------------------------------
(* The configuration                                                        *)

Rows == [model : Models \cup {None}, key : ApiKeys \cup {None}, active : BOOLEAN,
         primary : BOOLEAN, verified : BOOLEAN]
Locals == [active : BOOLEAN, primary : BOOLEAN, verified : BOOLEAN]
Tests == [key : ApiKeys \cup {None}, model : Models \cup {None}, rowSame : BOOLEAN, keySame : BOOLEAN]
Switches == [model : Models \cup {None}, primary : BOOLEAN]

EngineTypes ==
    /\ claude \in Rows
    /\ localAI \in Locals
    /\ tests \in [Admins -> {None} \cup Tests]
    /\ switching \in {None} \cup Switches

Accepted(row) == <<row.key, row.model>> \in passed

Faithful ==
    \A a \in Admins : tests[a] # None /\ tests[a].rowSame /\ tests[a].keySame =>
        tests[a].key = claude.key /\ tests[a].model = claude.model

Engines ==
    /\ EngineTypes
    /\ Faithful
    /\ claude.verified => Accepted(claude)
    /\ claude.active => Accepted(claude)
    /\ claude.primary => ~localAI.primary

LEMMA EnginesAtFirst == ConfigInit => Engines
BY DEF ConfigInit, Unset, Engines, EngineTypes, Faithful, Rows, Locals

(* After a write no test that was under way counts any more. *)
LEMMA Forgotten ==
    ASSUME EngineTypes
    PROVE  /\ RowWritten \in [Admins -> {None} \cup Tests]
           /\ SecretWritten \in [Admins -> {None} \cup Tests]
           /\ \A a \in Admins : RowWritten[a] # None => ~RowWritten[a].rowSame
           /\ \A a \in Admins : SecretWritten[a] # None => ~SecretWritten[a].rowSame
<1>1. ASSUME NEW a \in Admins, tests[a] # None
      PROVE  /\ [tests[a] EXCEPT !.rowSame = FALSE] \in Tests
             /\ ~[tests[a] EXCEPT !.rowSame = FALSE].rowSame
             /\ [tests[a] EXCEPT !.rowSame = FALSE, !.keySame = FALSE] \in Tests
             /\ ~[tests[a] EXCEPT !.rowSame = FALSE, !.keySame = FALSE].rowSame
  <2>1. tests[a] \in Tests
    BY <1>1 DEF EngineTypes
  <2>2. QED
    BY <2>1 DEF Tests
<1>2. QED
  BY <1>1 DEF RowWritten, SecretWritten

LEMMA SaveStep ==
    ASSUME Engines, NEW a \in Admins, SaveClaude(a) PROVE Engines'
<1>1. PICK model \in Models, key \in (ApiKeys \cup {claude.key}) \ {None} :
          claude' = Stopped([claude EXCEPT !.model = model, !.key = key])
  BY DEF SaveClaude
<1>2. claude' \in Rows /\ claude'.active = FALSE /\ claude'.verified = FALSE
      /\ claude'.primary = claude.primary
  BY <1>1 DEF Stopped, Rows, Engines, EngineTypes
<1>3. tests' = SecretWritten /\ UNCHANGED <<switching, localAI, passed>>
  BY DEF SaveClaude
<1>4. EngineTypes'
  BY <1>2, <1>3, Forgotten DEF Engines, EngineTypes
<1>5. Faithful'
  BY <1>3, Forgotten DEF Engines, Faithful
<1>6. QED
  BY <1>2, <1>3, <1>4, <1>5 DEF Engines

LEMMA TestStep ==
    ASSUME Engines, NEW a \in Admins, StartTest(a) \/ TestPasses(a) \/ TestFails(a)
    PROVE  Engines'
<1>1. CASE StartTest(a)
  <2> DEFINE test == [key |-> claude.key, model |-> claude.model, rowSame |-> TRUE, keySame |-> TRUE]
  <2>1. test \in Tests /\ test.key = claude.key /\ test.model = claude.model
    BY DEF Tests, Rows, Engines, EngineTypes
  <2>2. tests' = [tests EXCEPT ![a] = test] /\ UNCHANGED <<claude, switching, localAI, passed>>
    BY <1>1 DEF StartTest
  <2> HIDE DEF test
  <2>3. EngineTypes' /\ Faithful'
    BY <2>1, <2>2 DEF Engines, EngineTypes, Faithful
  <2>4. QED
    BY <2>2, <2>3 DEF Engines, Accepted
<1>2. CASE TestPasses(a)
  <2>1. tests[a] \in Tests /\ tests[a] # None
    BY <1>2 DEF TestPasses, Engines, EngineTypes
  <2>2. /\ claude' = [claude EXCEPT !.verified = @ \/ Unchanged(tests[a])]
        /\ tests' = [tests EXCEPT ![a] = None]
        /\ passed' = passed \cup {<<tests[a].key, tests[a].model>>}
        /\ UNCHANGED <<switching, localAI>>
    BY <1>2 DEF TestPasses
  <2>3. /\ claude' \in Rows /\ claude'.key = claude.key /\ claude'.model = claude.model
        /\ claude'.active = claude.active /\ claude'.primary = claude.primary
        /\ claude'.verified = (claude.verified \/ Unchanged(tests[a]))
    BY <2>1, <2>2 DEF Rows, Tests, Unchanged, Engines, EngineTypes
  <2>4. EngineTypes' /\ Faithful'
    BY <2>2, <2>3 DEF Engines, EngineTypes, Faithful
  <2>5. Unchanged(tests[a]) => tests[a].key = claude.key /\ tests[a].model = claude.model
    BY <2>1 DEF Engines, Faithful, Unchanged
  <2>6. claude'.verified => Accepted(claude)'
    <3>1. CASE claude.verified
      BY <3>1, <2>2, <2>3 DEF Engines, Accepted
    <3>2. CASE Unchanged(tests[a])
      BY <3>2, <2>2, <2>3, <2>5 DEF Accepted
    <3>3. QED
      BY <3>1, <3>2, <2>3
  <2>7. claude'.active => Accepted(claude)'
    BY <2>2, <2>3 DEF Engines, Accepted
  <2>8. QED
    BY <2>2, <2>3, <2>4, <2>6, <2>7 DEF Engines
<1>3. CASE TestFails(a)
  <2>1. tests[a] \in Tests
    BY <1>3 DEF TestFails, Engines, EngineTypes
  <2>2. /\ claude' = [claude EXCEPT !.verified = @ /\ ~tests[a].keySame]
        /\ tests' = [tests EXCEPT ![a] = None]
        /\ UNCHANGED <<switching, localAI, passed>>
    BY <1>3 DEF TestFails
  <2>3. /\ claude' \in Rows /\ claude'.key = claude.key /\ claude'.model = claude.model
        /\ claude'.active = claude.active /\ claude'.primary = claude.primary
        /\ (claude'.verified => claude.verified)
    BY <2>1, <2>2 DEF Rows, Tests, Engines, EngineTypes
  <2>4. EngineTypes' /\ Faithful'
    BY <2>2, <2>3 DEF Engines, EngineTypes, Faithful
  <2>5. QED
    BY <2>2, <2>3, <2>4 DEF Engines, Accepted
<1>4. QED
  BY <1>1, <1>2, <1>3

LEMMA SwitchStep ==
    ASSUME Engines,
           (\E a \in Admins : ActivateClaude(a)) \/ LoadSwitch \/ WriteSwitch \/ ActivateLocal
    PROVE  Engines'
<1>1. ASSUME NEW a \in Admins, ActivateClaude(a) PROVE Engines'
  <2>1. /\ claude' = [claude EXCEPT !.active = TRUE, !.primary = TRUE]
        /\ localAI' = [localAI EXCEPT !.primary = FALSE]
        /\ tests' = RowWritten /\ UNCHANGED <<switching, passed>> /\ claude.verified
    BY <1>1 DEF ActivateClaude
  <2>2. /\ claude' \in Rows /\ claude'.key = claude.key /\ claude'.model = claude.model
        /\ localAI' \in Locals /\ localAI'.primary = FALSE
    BY <2>1 DEF Rows, Locals, Engines, EngineTypes
  <2>3. EngineTypes' /\ Faithful'
    BY <2>1, <2>2, Forgotten DEF Engines, EngineTypes, Faithful
  <2>4. QED
    BY <2>1, <2>2, <2>3 DEF Engines, Accepted
<1>2. CASE LoadSwitch
  <2>1. switching' \in Switches
    BY <1>2 DEF LoadSwitch, Switches, Rows, Engines, EngineTypes
  <2>2. QED
    BY <1>2, <2>1 DEF LoadSwitch, Engines, EngineTypes, Faithful, Accepted
<1>3. CASE WriteSwitch
  <2>1. CASE UNCHANGED <<claude, tests>>
    BY <1>3, <2>1 DEF WriteSwitch, Engines, EngineTypes, Faithful, Accepted
  <2>2. CASE ~(switching.primary /\ localAI.primary)
    <3>1. switching \in Switches
      BY <1>3 DEF WriteSwitch, Engines, EngineTypes
    <3>2. /\ claude' = [claude EXCEPT !.model = switching.model, !.active = FALSE,
                           !.primary = switching.primary, !.verified = FALSE]
          /\ tests' = RowWritten /\ switching' = None /\ UNCHANGED <<localAI, passed>>
      BY <1>3, <2>2 DEF WriteSwitch
    <3>3. /\ claude' \in Rows /\ claude'.active = FALSE /\ claude'.verified = FALSE
          /\ claude'.primary = switching.primary
      BY <3>1, <3>2 DEF Rows, Switches, Engines, EngineTypes
    <3>4. EngineTypes' /\ Faithful'
      BY <3>2, <3>3, Forgotten DEF Engines, EngineTypes, Faithful
    <3>5. QED
      BY <2>2, <3>2, <3>3, <3>4 DEF Engines
  <2>3. QED
    BY <1>3, <2>1, <2>2 DEF WriteSwitch
<1>4. CASE ActivateLocal
  <2>1. /\ claude' = [claude EXCEPT !.primary = FALSE]
        /\ localAI' = [localAI EXCEPT !.active = TRUE, !.primary = TRUE]
        /\ UNCHANGED <<tests, switching, passed>>
    BY <1>4 DEF ActivateLocal
  <2>2. /\ claude' \in Rows /\ claude'.key = claude.key /\ claude'.model = claude.model
        /\ claude'.active = claude.active /\ claude'.verified = claude.verified
        /\ claude'.primary = FALSE /\ localAI' \in Locals
    BY <2>1 DEF Rows, Locals, Engines, EngineTypes
  <2>3. EngineTypes' /\ Faithful'
    BY <2>1, <2>2 DEF Engines, EngineTypes, Faithful
  <2>4. QED
    BY <2>1, <2>2, <2>3 DEF Engines, Accepted
<1>5. QED
  BY <1>1, <1>2, <1>3, <1>4

LEMMA LocalStep ==
    ASSUME Engines, StartLocalTest \/ EndLocalTest \/ LocalTestAges
    PROVE  Engines'
<1>1. UNCHANGED <<claude, tests, switching, passed>>
  BY DEF StartLocalTest, EndLocalTest, LocalTestAges
<1>2. localAI' \in Locals /\ localAI'.primary = localAI.primary
  <2>1. CASE StartLocalTest
    BY <2>1 DEF StartLocalTest, Engines, EngineTypes
  <2>2. CASE EndLocalTest
    <3>1. PICK good \in BOOLEAN :
            localAI' = [localAI EXCEPT !.verified = IF localTest = "current" THEN good ELSE @]
      BY <2>2 DEF EndLocalTest
    <3>2. QED
      BY <3>1 DEF Engines, EngineTypes, Locals
  <2>3. CASE LocalTestAges
    BY <2>3 DEF LocalTestAges, Engines, EngineTypes, Locals
  <2>4. QED
    BY <2>1, <2>2, <2>3
<1>3. QED
  BY <1>1, <1>2 DEF Engines, EngineTypes, Faithful, Accepted

(* Claude runs with a key and a model that its provider accepted, and not  *)
(* beside the private model, for any number of superadmins, keys, models   *)
(* and overlapping tests (AnthropicConfigView, LocalLLMView).              *)
THEOREM ClaudeIsTested == ConfigSpec => []ClaudeWasTested
<1>1. Engines /\ [ConfigNext]_configVars => Engines'
  <2> SUFFICES ASSUME Engines, [ConfigNext]_configVars PROVE Engines'
    OBVIOUS
  <2>1. ASSUME UNCHANGED engineVars PROVE Engines'
    BY <2>1 DEF engineVars, Engines, EngineTypes, Faithful, Accepted
  <2>2. CASE EngineNext
    BY <2>2, SaveStep, TestStep, SwitchStep, LocalStep DEF EngineNext
  <2>3. CASE PriceNext
    BY <2>1, <2>3 DEF PriceNext, SavePrice, ToggleProvider, LoadPatch, WritePatch
  <2>4. CASE UNCHANGED configVars
    BY <2>1, <2>4 DEF configVars
  <2>5. QED
    BY <2>2, <2>3, <2>4 DEF ConfigNext
<1>2. Engines => ClaudeWasTested
  BY DEF Engines, ClaudeWasTested, InForce, Accepted
<1>3. QED
  BY <1>1, <1>2, EnginesAtFirst, PTL DEF ConfigSpec

-----------------------------------------------------------------------------
Priced(row) == row \in Prices /\ (row.active => row.price > 0 /\ row.dated)

Requests == Prices \cup {[active |-> b] : b \in BOOLEAN}

Sound == Priced(paid) /\ \A p \in patches : Priced(Merged(p.row, p.sent))

(* What a request writes over a row: what it sends, and the rest of the    *)
(* row.                                                                    *)
LEMMA SentOver ==
    ASSUME NEW row \in Prices, NEW sent \in Requests
    PROVE  /\ Overlaid(sent, row) \in Prices
           /\ Overlaid(sent, row).active = sent.active
           /\ "active" \in DOMAIN sent
<1>1. CASE sent \in Prices
  <2>1. DOMAIN sent = {"active", "price", "dated"} /\ DOMAIN row = {"active", "price", "dated"}
    BY <1>1 DEF Prices
  <2>2. Overlaid(sent, row) = [x \in {"active", "price", "dated"} |-> sent[x]]
    BY <2>1 DEF Overlaid
  <2>3. Overlaid(sent, row) = sent
    BY <1>1, <2>1, <2>2 DEF Prices
  <2>4. QED
    BY <1>1, <2>1, <2>3
<1>2. CASE sent \in {[active |-> b] : b \in BOOLEAN}
  <2>1. PICK b \in BOOLEAN : sent = [active |-> b]
    BY <1>2
  <2>2. DOMAIN sent = {"active"} /\ DOMAIN row = {"active", "price", "dated"} /\ sent.active = b
    BY <2>1 DEF Prices
  <2>3. Overlaid(sent, row) = [x \in {"active", "price", "dated"} |->
                          IF x = "active" THEN b ELSE row[x]]
    BY <2>1, <2>2 DEF Overlaid
  <2>4. Overlaid(sent, row) = [active |-> b, price |-> row.price, dated |-> row.dated]
    BY <2>3
  <2>5. QED
    BY <2>2, <2>4 DEF Prices
<1>3. QED
  BY <1>1, <1>2 DEF Requests

LEMMA PatchLoaded ==
    ASSUME Sound, NEW sent \in Requests, LoadPatch(sent) PROVE Sound'
<1>1. Checked(paid, sent) /\ patches' = patches \cup {[row |-> paid, sent |-> sent]}
      /\ UNCHANGED paid
  BY DEF LoadPatch
<1>2. Priced(Overlaid(sent, paid))
  BY <1>1, SentOver DEF Sound, Priced, Checked
<1>3. QED
  BY <1>1, <1>2 DEF Sound, Merged

(* A paid provider that is switched on has a verified price, for any       *)
(* number of requests that overlap: a PATCH is checked as the row it will  *)
(* write (AdminProviderSerializer.validate).                               *)
THEOREM ActiveStaysPriced == ConfigSpec => []ActiveIsPriced
<1>1. ConfigInit => Sound
  BY DEF ConfigInit, Sound, Priced
<1>2. Sound /\ [ConfigNext]_configVars => Sound'
  <2> SUFFICES ASSUME Sound, [ConfigNext]_configVars PROVE Sound'
    OBVIOUS
  <2>1. ASSUME UNCHANGED priceVars PROVE Sound'
    BY <2>1 DEF priceVars, Sound
  <2>2. CASE EngineNext
    BY <2>1, <2>2 DEF EngineNext, SaveClaude, StartTest, TestPasses, TestFails, ActivateClaude,
       LoadSwitch, WriteSwitch, StartLocalTest, EndLocalTest, LocalTestAges, ActivateLocal
  <2>3. CASE SavePrice
    BY <2>3, PatchLoaded DEF SavePrice, Requests
  <2>4. CASE ToggleProvider
    <3>1. [active |-> ~paid.active] \in Requests
      BY DEF Requests
    <3>2. QED
      BY <2>4, <3>1, PatchLoaded DEF ToggleProvider
  <2>5. ASSUME NEW p \in patches, WritePatch(p) PROVE Sound'
    BY <2>5 DEF WritePatch, Sound
  <2>6. CASE UNCHANGED configVars
    BY <2>1, <2>6 DEF configVars
  <2>7. QED
    BY <2>2, <2>3, <2>4, <2>5, <2>6 DEF ConfigNext, PriceNext
<1>3. Sound => ActiveIsPriced
  BY DEF Sound, Priced, ActiveIsPriced
<1>4. QED
  BY <1>1, <1>2, <1>3, PTL DEF ConfigSpec
==============================================================================
