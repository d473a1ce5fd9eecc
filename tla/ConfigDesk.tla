----------------------------- MODULE ConfigDesk -----------------------------
(***************************************************************************)
(* The configuration page of the superadmins (frontend/src/pages/admin/    *)
(* AdminConfigPage.tsx with AnthropicSettings, ClaudeConnectionOptions,    *)
(* LocalAISettings and ProviderPriceEditor) and the rows of                *)
(* api_credentials_config that it changes (backend/adminpanel:             *)
(* anthropic_config, local_llm, views, serializers).                       *)
(*                                                                         *)
(* Engines: the key and the model of Claude are saved, tested and then     *)
(* switched on, by several admins.  A test reads the row, calls the        *)
(* provider and records its result later; a row and its secret carry the   *)
(* time they were last written, here a number.  The private model is       *)
(* tested and switched on beside it: one of them is the primary.           *)
(*                                                                         *)
(* Prices: the row of Higgsfield, the provider whose clips are paid for,   *)
(* is changed by the form of its price, which keeps what it showed when it *)
(* was opened, and by the switch of the table.  A PATCH loads the row,     *)
(* checks it with what was sent and writes the whole of it.                *)
(***************************************************************************)
EXTENDS Naturals

CONSTANTS
    Admins,         \* superadmins at the page
    Models, ApiKeys,   \* model ids and API keys that are typed
    None,           \* nothing: no row yet, no key, no test
    MaxPatches      \* bound: PATCH requests for the paid provider

ASSUME ConfigDeskAssumption ==
    None \notin Models \cup ApiKeys /\ MaxPatches \in Nat

VARIABLES
    claude,     \* the row of Claude and its secret
    tests,      \* tests of Claude under way, by admin
    switching,  \* the row a PATCH that switches Claude off has loaded
    localAI,    \* the row of the private model
    localTest,  \* a test of the private model
    passed,     \* keys and models that the provider accepted
    paid,       \* the row of a paid provider
    patches,    \* PATCH requests: the row they loaded and what they send
    patched     \* PATCH requests so far

engineVars == <<claude, tests, switching, localAI, localTest, passed>>
priceVars  == <<paid, patches, patched>>
configVars == <<engineVars, priceVars>>

-----------------------------------------------------------------------------
Prices == [active : BOOLEAN, price : {0, 1}, dated : BOOLEAN]

Unset == [model |-> None, key |-> None, active |-> FALSE, primary |-> FALSE,
          verified |-> FALSE]

ConfigInit ==
    /\ claude = Unset
    /\ tests = [a \in Admins |-> None]
    /\ switching = None
    /\ localAI = [active |-> FALSE, primary |-> FALSE, verified |-> FALSE]
    /\ localTest = "none"
    /\ passed = {}
    /\ paid \in {row \in Prices : ~row.active}
    /\ patches = {}
    /\ patched = 0

-----------------------------------------------------------------------------
(* Engines                                                                 *)

InForce == claude.active /\ claude.primary

(* The tests under way after a write of the row, and of the secret too. *)
RowWritten ==
    [a \in Admins |-> IF tests[a] = None THEN None ELSE [tests[a] EXCEPT !.rowSame = FALSE]]

SecretWritten ==
    [a \in Admins |-> IF tests[a] = None THEN None
                      ELSE [tests[a] EXCEPT !.rowSame = FALSE, !.keySame = FALSE]]

(* A configuration that is saved is off until it is tested and switched on *)
(* again.                                                                  *)
Stopped(row) == [row EXCEPT !.active = FALSE, !.verified = FALSE]

(* The form and its buttons are disabled while a request of theirs runs.   *)
Usable(a) == tests[a] = None

(* "Save": the model and the key of the form, the stored key when none was *)
(* typed.                                                                  *)
SaveClaude(a) ==
    /\ Usable(a)
    /\ \E model \in Models, key \in (ApiKeys \cup {claude.key}) \ {None} :
          claude' = Stopped([claude EXCEPT !.model = model, !.key = key])
    /\ tests' = SecretWritten
    /\ UNCHANGED <<switching, localAI, localTest, passed, priceVars>>

(* "Test": the row and the key are read, then the provider is called. *)
StartTest(a) ==
    /\ Usable(a)
    /\ claude.key # None
    /\ tests' = [tests EXCEPT ![a] = [key |-> claude.key, model |-> claude.model,
                                     rowSame |-> TRUE, keySame |-> TRUE]]
    /\ UNCHANGED <<claude, switching, localAI, localTest, passed, priceVars>>

(* Mutant of Unchanged: the row is not compared with what was tested. *)
UnchangedNever(test) == TRUE

(* Neither the row nor its secret was written since the test read them. *)
Unchanged(test) == test.rowSame /\ test.keySame

(* The provider answered: the result is recorded unless the configuration  *)
(* changed meanwhile.                                                      *)
TestPasses(a) ==
    /\ tests[a] # None
    /\ passed' = passed \cup {<<tests[a].key, tests[a].model>>}
    /\ claude' = [claude EXCEPT !.verified = @ \/ Unchanged(tests[a])]
    /\ tests' = [tests EXCEPT ![a] = None]
    /\ UNCHANGED <<switching, localAI, localTest, priceVars>>

(* A failed test takes the result back, for the key that it tested. *)
TestFails(a) ==
    /\ tests[a] # None
    /\ claude' = [claude EXCEPT !.verified = @ /\ ~tests[a].keySame]
    /\ tests' = [tests EXCEPT ![a] = None]
    /\ UNCHANGED <<switching, localAI, localTest, passed, priceVars>>

(* "Switch on": the row is verified as it is; the other one steps back. *)
ActivateClaude(a) ==
    /\ Usable(a)
    /\ claude.verified
    /\ ~InForce
    /\ claude' = [claude EXCEPT !.active = TRUE, !.primary = TRUE]
    /\ tests' = RowWritten
    /\ localAI' = [localAI EXCEPT !.primary = FALSE]
    /\ UNCHANGED <<switching, localTest, passed, priceVars>>

(* PATCH {is_active: false}, the only one that the row of Claude admits:   *)
(* it is loaded,                                                           *)
LoadSwitch ==
    /\ claude.model # None
    /\ switching = None
    /\ switching' = [model |-> claude.model, primary |-> claude.primary]
    /\ UNCHANGED <<claude, tests, localAI, localTest, passed, priceVars>>

(* and written whole; a second primary is refused by the database. *)
WriteSwitch ==
    /\ switching # None
    /\ switching' = None
    /\ IF switching.primary /\ localAI.primary
       THEN UNCHANGED <<claude, tests>>
       ELSE /\ claude' = [claude EXCEPT !.model = switching.model, !.active = FALSE,
                             !.primary = switching.primary, !.verified = FALSE]
            /\ tests' = RowWritten
    /\ UNCHANGED <<localAI, localTest, passed, priceVars>>

(* LocalAISettings: the test of the private model, *)
StartLocalTest ==
    /\ localTest = "none"
    /\ localTest' = "current"
    /\ UNCHANGED <<claude, tests, switching, localAI, passed, priceVars>>

(* recorded unless the row was written meanwhile, *)
EndLocalTest ==
    /\ localTest # "none"
    /\ \E good \in BOOLEAN :
          localAI' = [localAI EXCEPT !.verified = IF localTest = "current" THEN good ELSE @]
    /\ localTest' = "none"
    /\ UNCHANGED <<claude, tests, switching, passed, priceVars>>

(* which holds for an hour, *)
LocalTestAges ==
    /\ localAI.verified
    /\ localAI' = [localAI EXCEPT !.verified = FALSE]
    /\ UNCHANGED <<claude, tests, switching, localTest, passed, priceVars>>

(* and the switch. *)
ActivateLocal ==
    /\ localAI.verified
    /\ ~(localAI.active /\ localAI.primary)
    /\ localAI' = [localAI EXCEPT !.active = TRUE, !.primary = TRUE]
    /\ localTest' = IF localTest = "none" THEN "none" ELSE "stale"
    /\ claude' = [claude EXCEPT !.primary = FALSE]
    /\ UNCHANGED <<tests, switching, passed, priceVars>>

-----------------------------------------------------------------------------
(* Prices                                                                  *)

(* What a request writes over a row: what it sends, the rest as it was. *)
Overlaid(sent, row) == [x \in DOMAIN row |-> IF x \in DOMAIN sent THEN sent[x] ELSE row[x]]

(* AdminProviderSerializer.validate: what is sent as active has a price    *)
(* and the day it was verified, sent with it or in the row.                *)
Checked(row, sent) ==
    "active" \in DOMAIN sent /\ sent.active =>
        LET after == Overlaid(sent, row) IN after.price > 0 /\ after.dated

(* PATCH: the row is loaded and checked. *)
LoadPatch(sent) ==
    /\ patched < MaxPatches
    /\ Checked(paid, sent)
    /\ patched' = patched + 1
    /\ patches' = patches \cup {[row |-> paid, sent |-> sent]}
    /\ UNCHANGED <<engineVars, paid>>

(* "Save price" sends everything that the form holds: what it showed when  *)
(* it was opened, and what was typed over it.                              *)
SavePrice == \E form \in Prices : LoadPatch(form)

(* The switch of the table. *)
ToggleProvider == LoadPatch([active |-> ~paid.active])

(* Mutant of Merged: only the columns that were sent are written. *)
MergedColumns(row, sent) == Overlaid(sent, paid)

(* serializer.save(): the row as it was loaded, with what was sent. *)
Merged(row, sent) == Overlaid(sent, row)

WritePatch(p) ==
    /\ p \in patches
    /\ patches' = patches \ {p}
    /\ paid' = Merged(p.row, p.sent)
    /\ UNCHANGED <<engineVars, patched>>

-----------------------------------------------------------------------------
EngineNext ==
    \/ \E a \in Admins :
          \/ SaveClaude(a) \/ StartTest(a)
          \/ TestPasses(a) \/ TestFails(a) \/ ActivateClaude(a)
    \/ LoadSwitch \/ WriteSwitch
    \/ StartLocalTest \/ EndLocalTest \/ LocalTestAges \/ ActivateLocal

PriceNext ==
    \/ SavePrice \/ ToggleProvider
    \/ \E p \in patches : WritePatch(p)

ConfigNext == EngineNext \/ PriceNext
ConfigSpec == ConfigInit /\ [][ConfigNext]_configVars

-----------------------------------------------------------------------------
(* Claude answers the creators with a key and a model that its provider    *)
(* accepted, whoever saves, tests, switches on or off in between, and      *)
(* never beside the private model (AnthropicConfigView, LocalLLMView).     *)
ClaudeWasTested ==
    InForce => /\ <<claude.key, claude.model>> \in passed
               /\ ~localAI.primary

(* A paid provider that is switched on has a price, and the day it was     *)
(* verified, whichever of two changes of the row is written last           *)
(* (AdminProviderSerializer, AdminProviderDetailView).                     *)
ActiveIsPriced == paid.active => paid.price > 0 /\ paid.dated

=============================================================================
