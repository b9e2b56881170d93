---------------------------- MODULE MerchantConfig ----------------------------
(***************************************************************************)
(* The merchants' reconciliation configuration: the table of               *)
(* agent/merchant_config.py, the two endpoints of api/app.py over it, the  *)
(* form of frontend/src/pages/Merchants.tsx and other callers of the POST. *)
(*                                                                         *)
(* A critical section of _lock is one step.  GET takes two of them.  A     *)
(* statement and its commit share one, so a crash loses no part of a row.  *)
(***************************************************************************)
EXTENDS Naturals, FiniteSetsExt

CONSTANTS Merchants, Windows, Thresholds,
          DATE_WINDOW_DAYS, HIGH_VALUE_THRESHOLD,   \* the defaults
          Unregistered,                             \* no row
          Requests,                                 \* what other callers ask for
          MaxWrites                                 \* bounds the POSTs

VARIABLES table,    \* merchant_configs: merchant -> its row or Unregistered
          load,     \* the form's GET in flight
          save,     \* the form's POST in flight
          form,     \* the form's fields; loaded: whether they are shown
          writes,   \* history: how often a merchant's row was written
          crossed   \* history: the merchant id was edited during a request

vars == <<table, load, save, form, writes, crossed>>

Configs == [window : Windows, threshold : Thresholds]

Default == [window |-> DATE_WINDOW_DAYS, threshold |-> HIGH_VALUE_THRESHOLD]

Fields == {"window", "threshold"}

\* request with the fields it leaves out taken from rest.
Fill(request, rest) ==
  [f \in Fields |-> IF f \in DOMAIN request THEN request[f] ELSE rest[f]]

\* A request that passed validation is a configuration once it is filled.
ASSUME MerchantAssumption ==
  /\ DATE_WINDOW_DAYS \in Windows
  /\ HIGH_VALUE_THRESHOLD \in Thresholds
  /\ MaxWrites \in Nat
  /\ Unregistered \notin Configs \cup Requests
  /\ \A r \in Requests : Fill(r, Default) \in Configs

\* get_merchant_config: an unregistered merchant has the defaults.
Effective(t, m) == IF t[m] = Unregistered THEN Default ELSE t[m]

Known(t, m) == t[m] # Unregistered

\* What a value in the form was last set from: a merchant's row as of a write.
Base(m) == [merchant |-> m, version |-> writes[m]]

NoRequest == [phase |-> "none"]

Init ==
  /\ table = [m \in Merchants |-> Unregistered]
  /\ load = NoRequest /\ save = NoRequest
  /\ \E m \in Merchants : form = [id |-> m, config |-> Default, loaded |-> FALSE, edited |-> {},
                                 base |-> [merchant |-> m, version |-> 0]]
  /\ writes = [m \in Merchants |-> 0]
  /\ crossed = FALSE

-----------------------------------------------------------------------------
(* The server                                                              *)

\* set_merchant_config: a field that is left out takes the default.
Filled(m, request) == Fill(request, Default)

\* register_merchant_config
Register(m, request) ==
  /\ MapThenSumSet(LAMBDA n : writes[n], Merchants) < MaxWrites
  /\ table' = [table EXCEPT ![m] = Filled(m, request)]
  /\ writes' = [writes EXCEPT ![m] = @ + 1]

\* Another caller's POST.
OtherPost == /\ \E m \in Merchants, r \in Requests : Register(m, r)
             /\ UNCHANGED <<load, save, form, crossed>>

\* Variant with a bug: the configuration is read before the registration.
ConfigThenKnown == <<"config", "known">>

\* get_merchant_config_endpoint: the two reads, in this order.
GetOrder == <<"known", "config">>

Get(step) ==
  /\ load.phase = GetOrder[step]
  /\ load' = [load EXCEPT
       !.phase = IF step = 1 THEN GetOrder[2] ELSE "reply",
       !.known = IF GetOrder[step] = "known" THEN Known(table, load.merchant) ELSE @,
       !.config = IF GetOrder[step] = "config" THEN Effective(table, load.merchant) ELSE @,
       !.fallback = IF GetOrder[step] = "config" THEN ~Known(table, load.merchant) ELSE @,
       !.base = IF GetOrder[step] = "config" THEN Base(load.merchant) ELSE @]
  /\ UNCHANGED <<table, save, form, writes, crossed>>

SavePost == /\ save.phase = "sent"
            /\ Register(save.merchant, save.request)
            /\ save' = [save EXCEPT !.phase = "reply",
                                    !.base.merchant = save.merchant, !.base.version = writes'[save.merchant],
                                    !.row = Filled(save.merchant, save.request)]
            /\ UNCHANGED <<load, form, crossed>>

\* The process dies and restarts: requests end, the table stays.
Crash == /\ load' = NoRequest /\ save' = NoRequest
         /\ form' = IF load = NoRequest THEN form ELSE [form EXCEPT !.loaded = FALSE]
         /\ UNCHANGED <<table, writes, crossed>>

-----------------------------------------------------------------------------
(* The form                                                                *)

\* Variant with a bug: the fields stay on screen under another id.
EditIdKeeps == /\ \E m \in Merchants \ {form.id} : form' = [form EXCEPT !.id = m]
               /\ crossed' = (crossed \/ load # NoRequest \/ save # NoRequest)
               /\ UNCHANGED <<table, load, save, writes>>

\* The id can be edited at any time and hides the fields.
EditId == /\ \E m \in Merchants \ {form.id} : form' = [form EXCEPT !.id = m, !.loaded = FALSE]
          /\ crossed' = (crossed \/ load # NoRequest \/ save # NoRequest)
          /\ UNCHANGED <<table, load, save, writes>>

EditField ==
  /\ form.loaded
  /\ \/ \E w \in Windows \ {form.config.window} : form' = [form EXCEPT !.config.window = w, !.edited = @ \cup {"window"}]
     \/ \E t \in Thresholds \ {form.config.threshold} :
          form' = [form EXCEPT !.config.threshold = t, !.edited = @ \cup {"threshold"}]
  /\ UNCHANGED <<table, load, save, writes, crossed>>

Load ==
  /\ load = NoRequest
  /\ load' = [phase |-> GetOrder[1], merchant |-> form.id, known |-> FALSE, config |-> Default,
              fallback |-> FALSE, base |-> Base(form.id)]
  /\ UNCHANGED <<table, save, form, writes, crossed>>

\* The fields are set from the answer, whatever the id is now.
LoadDone ==
  /\ load.phase = "reply"
  /\ form' = [form EXCEPT !.config = load.config, !.loaded = TRUE, !.edited = {}, !.base = load.base]
  /\ load' = NoRequest
  /\ UNCHANGED <<table, save, writes, crossed>>

LoadFails == /\ load # NoRequest
             /\ load' = NoRequest
             /\ form' = [form EXCEPT !.loaded = FALSE]
             /\ UNCHANGED <<table, save, writes, crossed>>

\* Variant with a bug: only what was edited is sent.
SentEdited == [f \in form.edited |-> form.config[f]]

\* Both fields are sent, edited or not.
Sent == form.config

Save ==
  /\ form.loaded /\ save = NoRequest
  /\ save' = [phase |-> "sent", merchant |-> form.id, request |-> Sent, edited |-> form.edited,
              base |-> form.base, row |-> Default]
  /\ UNCHANGED <<table, load, form, writes, crossed>>

\* The fields are set from the answer, whatever the id is now.
SaveDone ==
  /\ save.phase = "reply"
  /\ form' = [form EXCEPT !.config = save.row, !.edited = {}, !.base = save.base]
  /\ save' = NoRequest
  /\ UNCHANGED <<table, load, writes, crossed>>

\* The answer is lost, before or after the server wrote the row.
SaveFails == /\ save # NoRequest
             /\ save' = NoRequest
             /\ UNCHANGED <<table, load, form, writes, crossed>>

Next == \/ OtherPost \/ SavePost \/ Crash
        \/ \E step \in 1..2 : Get(step)
        \/ EditId \/ EditField \/ Load \/ LoadDone \/ LoadFails \/ Save \/ SaveDone \/ SaveFails

Spec == Init /\ [][Next]_vars

-----------------------------------------------------------------------------
(* Properties                                                              *)

Bases == [merchant : Merchants, version : Nat]

Loads == [phase : {"known", "config", "reply"}, merchant : Merchants, known : BOOLEAN,
          config : Configs, fallback : BOOLEAN, base : Bases]

TypeOK ==
  /\ table \in [Merchants -> Configs \cup {Unregistered}]
  /\ load \in Loads \cup {NoRequest}
  /\ save.phase \in {"none", "sent", "reply"}
  /\ form \in [id : Merchants, config : Configs, loaded : BOOLEAN,
               edited : SUBSET Fields, base : Bases]
  /\ writes \in [Merchants -> Nat] /\ crossed \in BOOLEAN

\* "known_merchant: true" never comes with values that are the fallback for a
\* merchant without a row, although GET asks the two questions at two moments.
KnownIsNoFallback == load.phase = "reply" /\ load.known => ~load.fallback

\* "a registered merchant's other setting is never silently reset" (the page):
\* a save leaves every field the user did not edit as it is in the table, as
\* long as nobody wrote the row since the form's values came from it.
UneditedFieldsSurvive ==
  [][(SavePost /\ save.base = Base(save.merchant)) =>
       \A f \in Fields \ save.edited :
         table'[save.merchant][f] = Effective(table, save.merchant)[f]]_vars

\* Values are saved for the merchant they were loaded for, unless the id was
\* edited while a request was in flight.
SavedWhereLoaded == save.phase = "sent" /\ ~crossed => save.base.merchant = save.merchant
=============================================================================
