---------------------------- MODULE ChannelDesk ----------------------------
(***************************************************************************)
(* The channel and preferences pages of a creator (frontend/src/pages/     *)
(* creator/ChannelPage.tsx, PreferencesPage.tsx, OAuthCallbackPage.tsx)    *)
(* with backend/channels (consent, callback, disconnect, token refresh)    *)
(* and the preference services of content_planning.                        *)
(*                                                                         *)
(* The creator has one row for each kind of Google account, youtube and    *)
(* adsense, with the same states.  A row is loaded, Google is asked, and   *)
(* then some columns of the row are written: nothing is locked, so every   *)
(* call keeps what it read and calls overlap freely.  Two calls of one     *)
(* kind that read the same are one.  What the preferences form holds is    *)
(* left out: it says only which row is written, and whether that row is    *)
(* paused.                                                                 *)
(***************************************************************************)
EXTENDS Naturals, FiniteSets, Sequences

CONSTANTS
    Kinds,          \* kinds of Google account
    Channel,        \* the kind of the YouTube channel
    Tokens,         \* refresh tokens Google can issue
    NoToken,
    Consents,       \* states of consent requests
    MaxOpen,        \* bound: calls under way at once
    MaxSaves,       \* bound: pauses, resumes, saves and disconnections in all
    MaxFailures     \* bound: revocations that Google never got

ASSUME ChannelDeskAssumption ==
    /\ Channel \in Kinds
    /\ NoToken \notin Tokens
    /\ MaxOpen \in Nat /\ MaxSaves \in Nat /\ MaxFailures \in Nat

VARIABLES
    account,    \* youtube_channels, adsense_accounts: status and tokens
    live,       \* Google: tokens that work
    issued,     \* Google: tokens issued so far
    accountShown,      \* what ChannelPage has loaded of each account
    consent,    \* the cached OAuth states
    call,       \* calls under way
    prefs,      \* content_preferences of the channel, oldest first: is_paused
    saves, failures

googleVars  == <<live, issued, failures>>
channelVars == <<account, accountShown, googleVars, consent, call, prefs, saves>>

-----------------------------------------------------------------------------
(* No row yet; "left" says that the creator has disconnected the account.  *)
NoAccount == [status |-> "none", token |-> NoToken, left |-> FALSE]

ChannelInit ==
    /\ account = [k \in Kinds |-> NoAccount]
    /\ live = {} /\ issued = {} /\ failures = 0
    /\ accountShown = [k \in Kinds |-> "unknown"]
    /\ consent = [s \in Consents |-> [phase |-> "none", kind |-> Channel]]
    /\ call = {}
    /\ prefs = <<>>
    /\ saves = 0

Open(c) == c \notin call /\ Cardinality(call) < MaxOpen /\ call' = call \cup {c}
Ends(c) == call' = call \ {c}
Moves(c, phase) == call' = (call \ {c}) \cup {[c EXCEPT !.phase = phase]}

Paused == [n \in DOMAIN prefs |-> TRUE]

-----------------------------------------------------------------------------
(* useChannel, useAdsenseAccount: the first channel row, whatever its      *)
(* status, and the account only while it is connected.                     *)
Listed(k) == IF k = Channel \/ account[k].status = "connected" THEN account[k].status ELSE "none"

LoadPage(k) ==
    /\ accountShown' = [accountShown EXCEPT ![k] = Listed(k)]
    /\ UNCHANGED <<account, googleVars, consent, call, prefs, saves>>

(* "Connect" is there while the page knows of no row: it asks for the      *)
(* address of Google and goes there.                                       *)
ConnectOffered(k) == accountShown[k] = "none"

Connect(s, k) ==
    /\ ConnectOffered(k)
    /\ consent[s].phase = "none"
    /\ consent' = [consent EXCEPT ![s] = [phase |-> "asked", kind |-> k]]
    /\ UNCHANGED <<account, accountShown, googleVars, call, prefs, saves>>

(* OAUTH_STATE_TTL_SECONDS, or the creator declines. *)
ConsentEnds(s) ==
    /\ consent[s].phase = "asked"
    /\ consent' = [consent EXCEPT ![s].phase = "gone"]
    /\ UNCHANGED <<account, accountShown, googleVars, call, prefs, saves>>

(* OAuthCallbackPage, once per load: the state is consumed and the code is *)
(* exchanged for a token, before the row is written.                       *)
Callback(s, t) ==
    /\ consent[s].phase = "asked"
    /\ t \notin issued
    /\ Open([op |-> "callback", kind |-> consent[s].kind, phase |-> "write", read |-> "none",
             token |-> t])
    /\ consent' = [consent EXCEPT ![s].phase = "gone"]
    /\ issued' = issued \cup {t} /\ live' = live \cup {t}
    /\ UNCHANGED <<account, accountShown, failures, prefs, saves>>

(* persist_youtube_channel, persist_adsense_account. *)
Persist(c) ==
    /\ c \in call /\ c.op = "callback"
    /\ account' = [account EXCEPT ![c.kind] =
          [NoAccount EXCEPT !.status = "connected", !.token = c.token]]
    /\ Ends(c)
    /\ UNCHANGED <<accountShown, googleVars, consent, prefs, saves>>

-----------------------------------------------------------------------------
(* "Disconnect", confirmed: the row is loaded and its token revoked; the   *)
(* revocation may not reach Google, which is logged and nothing more.      *)
Disconnect(k) ==
    /\ account[k].status # "none"
    /\ saves < MaxSaves /\ saves' = saves + 1
    /\ Open([op |-> "disconnect", kind |-> k, phase |-> "write", read |-> account[k].status,
             token |-> account[k].token])
    /\ \/ live' = live \ {account[k].token} /\ failures' = failures
       \/ failures < MaxFailures /\ failures' = failures + 1 /\ live' = live
    /\ UNCHANGED <<account, accountShown, issued, consent, prefs>>

(* disconnect_channel, disconnect_adsense_account: the tokens are deleted. *)
Disconnected(c) ==
    /\ c \in call /\ c.op = "disconnect" /\ c.phase = "write"
    /\ account' = [account EXCEPT ![c.kind] =
          [status |-> "disconnected", token |-> NoToken, left |-> TRUE]]
    /\ IF c.kind = Channel THEN Moves(c, "pause") ELSE Ends(c)
    /\ UNCHANGED <<accountShown, googleVars, consent, prefs, saves>>

(* _pause_scheduled_content *)
PauseContent(c) ==
    /\ c \in call /\ c.phase = "pause"
    /\ prefs' = Paused
    /\ Ends(c)
    /\ UNCHANGED <<account, accountShown, googleVars, consent, saves>>

-----------------------------------------------------------------------------
(* refresh_channel_credentials, by the beat task, "sync" or an upload.     *)
Refresh ==
    /\ account[Channel].status = "connected" /\ account[Channel].token # NoToken
    /\ Open([op |-> "refresh", kind |-> Channel, phase |-> "ask", read |-> "connected",
             token |-> account[Channel].token])
    /\ UNCHANGED <<account, accountShown, googleVars, consent, prefs, saves>>

AskGoogle(c) ==
    /\ c \in call /\ c.phase = "ask"
    /\ Moves(c, IF c.token \in live THEN "store" ELSE "fail")
    /\ UNCHANGED <<account, accountShown, googleVars, consent, prefs, saves>>

(* Mutant of Refreshed: the row is saved with all the columns that were    *)
(* loaded.                                                                 *)
RefreshedWhole(c) == [status |-> c.read, token |-> c.token, left |-> FALSE]

(* The access token is new and the refresh token is the one that was read. *)
Refreshed(c) == [account[c.kind] EXCEPT !.token = c.token]

StoreRefreshed(c) ==
    /\ c \in call /\ c.phase = "store"
    /\ account' = [account EXCEPT ![c.kind] = Refreshed(c)]
    /\ Ends(c)
    /\ UNCHANGED <<accountShown, googleVars, consent, prefs, saves>>

(* _mark_channel_disconnected_after_refresh_failure: the tokens stay. *)
RefreshFailed(c) ==
    /\ c \in call /\ c.phase = "fail"
    /\ account' = [account EXCEPT ![c.kind].status = "disconnected"]
    /\ Moves(c, "pause")
    /\ UNCHANGED <<accountShown, googleVars, consent, prefs, saves>>

(* The creator withdraws the consent at Google. *)
RevokedAtGoogle(t) ==
    /\ t \in live
    /\ live' = live \ {t}
    /\ UNCHANGED <<account, accountShown, issued, failures, consent, call, prefs, saves>>

-----------------------------------------------------------------------------
(* PreferencesPage "save": POST when the page has found no preferences; a  *)
(* channel that was found to have none is given one.                       *)
SaveNew ==
    /\ account[Channel].status # "none" /\ prefs = <<>>
    /\ saves < MaxSaves /\ saves' = saves + 1
    /\ Open([op |-> "create", kind |-> Channel, phase |-> "create", read |-> "none",
             token |-> NoToken])
    /\ UNCHANGED <<account, accountShown, googleVars, consent, prefs>>

CreatePreference(c) ==
    /\ c \in call /\ c.phase = "create"
    /\ prefs' = Append(prefs, FALSE)
    /\ Ends(c)
    /\ UNCHANGED <<account, accountShown, googleVars, consent, saves>>

(* PATCH: the oldest row is loaded, changed and saved with all its columns *)
(* (get_preference, update_preference).                                    *)
SaveKnown ==
    /\ prefs # <<>>
    /\ saves < MaxSaves /\ saves' = saves + 1
    /\ Open([op |-> "update", kind |-> Channel, phase |-> "update",
             read |-> IF Head(prefs) THEN "paused" ELSE "running", token |-> NoToken])
    /\ UNCHANGED <<account, accountShown, googleVars, consent, prefs>>

UpdatePreference(c) ==
    /\ c \in call /\ c.phase = "update"
    /\ prefs' = [prefs EXCEPT ![1] = c.read = "paused"]
    /\ Ends(c)
    /\ UNCHANGED <<account, accountShown, googleVars, consent, saves>>

(* pause_preference, resume_preference. *)
SetPaused(paused) ==
    /\ prefs # <<>>
    /\ saves < MaxSaves /\ saves' = saves + 1
    /\ prefs' = [prefs EXCEPT ![1] = paused]
    /\ UNCHANGED <<account, accountShown, googleVars, consent, call>>

-----------------------------------------------------------------------------
ChannelCall(c) ==
    \/ Persist(c) \/ Disconnected(c) \/ PauseContent(c)
    \/ AskGoogle(c) \/ StoreRefreshed(c) \/ RefreshFailed(c)
    \/ CreatePreference(c) \/ UpdatePreference(c)

ChannelNext ==
    \/ \E k \in Kinds : LoadPage(k) \/ Disconnect(k)
    \/ \E s \in Consents, k \in Kinds : Connect(s, k)
    \/ \E s \in Consents : ConsentEnds(s)
    \/ \E s \in Consents, t \in Tokens : Callback(s, t)
    \/ Refresh
    \/ \E t \in Tokens : RevokedAtGoogle(t)
    \/ SaveNew \/ SaveKnown
    \/ \E paused \in BOOLEAN : SetPaused(paused)
    \/ \E c \in call : ChannelCall(c)

ChannelSpec == ChannelInit /\ [][ChannelNext]_channelVars

-----------------------------------------------------------------------------
(* An account that is not connected becomes so only when the callback of a *)
(* consent is written: a refresh that started before a disconnection, or a *)
(* failed one, never connects it again, whatever it had loaded             *)
(* (refresh_channel_credentials).                                          *)
ReconnectsByConsent ==
    [][\A k \in Kinds :
          account[k].status # "connected" /\ account'[k].status = "connected" =>
          \E c \in call : c.op = "callback" /\ c.kind = k /\ c \notin call']_channelVars
=============================================================================
