------------------------- MODULE MerchantConfigProofs -------------------------
(***************************************************************************)
(* Proofs about MerchantConfig: what the two-step GET of the merchants'    *)
(* table can answer and what the form's saves do to it, for any number of  *)
(* merchants, values, requests and restarts.                               *)
(***************************************************************************)
EXTENDS MerchantConfig, TLAPS

Saves == [phase : {"sent", "reply"}, merchant : Merchants, request : Configs,
          edited : SUBSET Fields, base : Bases, row : Configs]

\* TypeOK with the whole of the form's POST.
Typed == TypeOK /\ save \in Saves \cup {NoRequest}

USE MerchantAssumption

LEMMA DefaultIsConfig == Default \in Configs
  BY DEF Default, Configs

LEMMA NoRequestIsApart == NoRequest \notin Loads /\ NoRequest \notin Saves
  BY DEF NoRequest, Loads, Saves

\* A configuration names both fields, so the defaults fill nothing.
LEMMA ConfigIsFull ==
  ASSUME NEW c \in Configs
  PROVE  Fill(c, Default) = c
  BY DEF Default, Configs, Fill, Fields

LEMMA FilledIsConfig ==
  ASSUME NEW m, NEW r \in Configs \cup Requests
  PROVE  Filled(m, r) \in Configs /\ Filled(m, r) # Unregistered
  <1>1. Filled(m, r) \in Configs
    BY ConfigIsFull DEF Filled
  <1>2. QED  BY <1>1

LEMMA EffectiveIsConfig ==
  ASSUME TypeOK, NEW m \in Merchants
  PROVE  Effective(table, m) \in Configs
  BY DefaultIsConfig DEF TypeOK, Effective

LEMMA BaseIsBase ==
  ASSUME TypeOK, NEW m \in Merchants
  PROVE  Base(m) \in Bases
  BY DEF TypeOK, Base, Bases

-----------------------------------------------------------------------------
(* Types                                                                   *)

LEMMA RegisterType ==
  ASSUME Typed, NEW m \in Merchants, NEW r \in Configs \cup Requests, Register(m, r)
  PROVE  /\ table' \in [Merchants -> Configs \cup {Unregistered}]
         /\ writes' \in [Merchants -> Nat]
         /\ writes'[m] = writes[m] + 1
BY FilledIsConfig DEF Register, Typed, TypeOK

\* The two reads of GET, field by field.
LEMMA GetType ==
  ASSUME Typed, NEW step \in 1..2, Get(step)
  PROVE  /\ load \in Loads /\ load' \in Loads
         /\ load'.merchant = load.merchant
         /\ step = 1 => /\ load.phase = "known" /\ load'.phase = "config"
                        /\ load'.known = Known(table, load.merchant)
                        /\ load'.base = load.base
         /\ step = 2 => /\ load.phase = "config" /\ load'.phase = "reply"
                        /\ load'.known = load.known
                        /\ load'.config = Effective(table, load.merchant)
                        /\ load'.fallback = ~Known(table, load.merchant)
                        /\ load'.base = Base(load.merchant)
<1>1. load \in Loads
  <2>1. GetOrder[step] \in {"known", "config"}
    BY DEF GetOrder
  <2>2. load # NoRequest
    BY <2>1 DEF Get, NoRequest
  <2> QED  BY <2>2 DEF Typed, TypeOK
<1>2. CASE step = 1
  <2>1. /\ load.phase = "known"
        /\ load' = [load EXCEPT !.phase = "config", !.known = Known(table, load.merchant),
                                !.config = load.config, !.fallback = load.fallback,
                                !.base = load.base]
    BY <1>2 DEF Get, GetOrder
  <2>2. Known(table, load.merchant) \in BOOLEAN
    BY DEF Known
  <2>3. load' \in Loads
    BY <1>1, <2>1, <2>2 DEF Loads
  <2>4. load'.merchant = load.merchant /\ load'.phase = "config" /\ load'.base = load.base
    BY <1>1, <2>1 DEF Loads
  <2>5. load'.known = Known(table, load.merchant)
    BY <1>1, <2>1 DEF Loads
  <2> QED  BY <1>1, <1>2, <2>1, <2>3, <2>4, <2>5
<1>3. CASE step = 2
  <2>1. load.merchant \in Merchants
    BY <1>1 DEF Loads
  <2>2. Effective(table, load.merchant) \in Configs /\ Base(load.merchant) \in Bases
    BY <2>1, EffectiveIsConfig, BaseIsBase DEF Typed
  <2>3. /\ load.phase = "config"
        /\ load' = [load EXCEPT !.phase = "reply", !.known = load.known,
                                !.config = Effective(table, load.merchant),
                                !.fallback = ~Known(table, load.merchant),
                                !.base = Base(load.merchant)]
    BY <1>3 DEF Get, GetOrder
  <2>4. Known(table, load.merchant) \in BOOLEAN
    BY DEF Known
  <2>5. load' \in Loads
    BY <1>1, <2>2, <2>3, <2>4 DEF Loads
  <2>6. /\ load'.merchant = load.merchant /\ load'.phase = "reply"
        /\ load'.config = Effective(table, load.merchant)
        /\ load'.base = Base(load.merchant)
    BY <1>1, <2>3 DEF Loads
  <2>7. load'.known = load.known
    BY <1>1, <2>3 DEF Loads
  <2>8. load'.fallback = ~Known(table, load.merchant)
    BY <1>1, <2>3 DEF Loads
  <2> QED  BY <1>1, <1>3, <2>3, <2>5, <2>6, <2>7, <2>8
<1> QED  BY <1>2, <1>3

LEMMA SavePostType ==
  ASSUME Typed, SavePost
  PROVE  /\ save \in Saves /\ save' \in Saves /\ save.phase = "sent"
         /\ save'.phase = "reply" /\ save'.merchant = save.merchant
         /\ save'.row = save.request
         /\ save'.base = [merchant |-> save.merchant, version |-> writes'[save.merchant]]
         /\ Register(save.merchant, save.request)
<1>1. save \in Saves /\ save.phase = "sent" /\ Register(save.merchant, save.request)
  BY DEF Typed, SavePost, NoRequest
<1>2. save.merchant \in Merchants /\ save.request \in Configs
  BY <1>1 DEF Saves
<1>3. writes'[save.merchant] \in Nat
  BY <1>1, <1>2, RegisterType
<1>4. Filled(save.merchant, save.request) = save.request
  BY <1>2, ConfigIsFull DEF Filled
<1> QED  BY <1>1, <1>2, <1>3, <1>4 DEF SavePost, Saves, Bases

LEMMA TypedInit == Init => Typed
<1> SUFFICES ASSUME Init PROVE Typed
  OBVIOUS
<1>1. form \in [id : Merchants, config : Configs, loaded : BOOLEAN, edited : SUBSET Fields, base : Bases]
  BY DefaultIsConfig DEF Init, Bases
<1> QED  BY <1>1 DEF Init, Typed, TypeOK, NoRequest

LEMMA TypedNext == Typed /\ [Next]_vars => Typed'
<1> SUFFICES ASSUME Typed, [Next]_vars PROVE Typed'
  OBVIOUS
<1> USE DEF Typed, TypeOK
<1>1. CASE OtherPost
  BY <1>1, RegisterType DEF OtherPost
<1>2. CASE SavePost
  <2>1. save.merchant \in Merchants /\ save.request \in Configs
    BY <1>2, SavePostType DEF Saves
  <2> QED  BY <1>2, <2>1, SavePostType, RegisterType DEF SavePost, Saves
<1>3. CASE Crash
  BY <1>3 DEF Crash, NoRequest
<1>4. ASSUME NEW step \in 1..2, Get(step) PROVE Typed'
  BY <1>4, GetType DEF Get
<1>5. CASE EditId
  BY <1>5 DEF EditId
<1>6. CASE EditField
  <2>1. form'.config \in Configs /\ form'.edited \in SUBSET Fields
    <3>1. form \in [id : Merchants, config : Configs, loaded : BOOLEAN, edited : SUBSET Fields, base : Bases]
      OBVIOUS
    <3>2. ASSUME NEW w \in Windows,
                 form' = [form EXCEPT !.config.window = w, !.edited = @ \cup {"window"}]
          PROVE  form'.config \in Configs /\ form'.edited \in SUBSET Fields
      BY <3>1, <3>2 DEF Configs, Fields
    <3>3. ASSUME NEW t \in Thresholds,
                 form' = [form EXCEPT !.config.threshold = t, !.edited = @ \cup {"threshold"}]
          PROVE  form'.config \in Configs /\ form'.edited \in SUBSET Fields
      BY <3>1, <3>3 DEF Configs, Fields
    <3> QED  BY <1>6, <3>2, <3>3 DEF EditField
  <2>2. /\ form' = [form EXCEPT !.config = form'.config, !.edited = form'.edited]
        /\ UNCHANGED <<table, load, save, writes, crossed>>
    BY <1>6 DEF EditField
  <2> QED  BY <2>1, <2>2
<1>7. CASE Load
  BY <1>7, DefaultIsConfig, BaseIsBase DEF Load, GetOrder, Loads
<1>8. CASE LoadDone
  <2>1. load.config \in Configs /\ load.base \in Bases
    BY <1>8 DEF LoadDone, NoRequest, Loads
  <2> QED  BY <1>8, <2>1 DEF LoadDone
<1>9. CASE LoadFails
  BY <1>9 DEF LoadFails
<1>10. CASE Save
  BY <1>10, DefaultIsConfig DEF Save, Sent, Saves
<1>11. CASE SaveDone
  <2>1. save.row \in Configs /\ save.base \in Bases
    BY <1>11 DEF SaveDone, NoRequest, Saves
  <2> QED  BY <1>11, <2>1 DEF SaveDone, NoRequest
<1>12. CASE SaveFails
  BY <1>12 DEF SaveFails, NoRequest
<1>13. CASE UNCHANGED vars
  BY <1>13 DEF vars
<1> QED
  BY <1>1, <1>2, <1>3, <1>4, <1>5, <1>6, <1>7, <1>8, <1>9, <1>10, <1>11, <1>12, <1>13 DEF Next

LEMMA AlwaysTyped == Spec => []Typed
  BY TypedInit, TypedNext, PTL DEF Spec

\* Every reachable state of the registry and the form is well formed.
THEOREM TypeCorrect == Spec => []TypeOK
<1>1. Typed => TypeOK
  BY DEF Typed
<1> QED  BY <1>1, AlwaysTyped, PTL

-----------------------------------------------------------------------------
(* GET                                                                     *)

\* KnownIsNoFallback is not inductive: between the two reads, that the answer
\* to the first still holds is what the second relies on.
KnownStays == load.phase = "config" /\ load.known => Known(table, load.merchant)

\* No step takes a row away.
LEMMA RowsStay ==
  ASSUME Typed, [Next]_vars, NEW m \in Merchants, Known(table, m)
  PROVE  Known(table', m)
<1>1. ASSUME NEW n \in Merchants, NEW r \in Configs \cup Requests, Register(n, r)
      PROVE  Known(table', m)
  BY <1>1, FilledIsConfig DEF Register, Known, Typed, TypeOK
<1>2. CASE OtherPost
  BY <1>2, <1>1 DEF OtherPost
<1>3. CASE SavePost
  <2>1. save.merchant \in Merchants /\ save.request \in Configs
    BY <1>3, SavePostType DEF Saves
  <2> QED  BY <1>3, <2>1, <1>1, SavePostType
<1>4. ASSUME UNCHANGED table PROVE Known(table', m)
  BY <1>4
<1> QED
  BY <1>2, <1>3, <1>4
  DEF Next, Crash, Get, EditId, EditField, Load, LoadDone, LoadFails, Save, SaveDone, SaveFails, vars

LEMMA KnownNext ==
  Typed /\ KnownStays /\ KnownIsNoFallback /\ [Next]_vars => KnownStays' /\ KnownIsNoFallback'
<1> SUFFICES ASSUME Typed, KnownStays, KnownIsNoFallback, [Next]_vars
             PROVE  KnownStays' /\ KnownIsNoFallback'
  OBVIOUS
<1>1. CASE Get(1)
  <2>1. /\ load \in Loads /\ load'.merchant = load.merchant /\ load'.phase = "config"
        /\ load'.known = Known(table, load.merchant)
    <3>1. 1 \in 1..2
      OBVIOUS
    <3> QED  BY <1>1, <3>1, GetType
  <2>2. table' = table
    BY <1>1 DEF Get
  <2> QED  BY <2>1, <2>2 DEF KnownStays, KnownIsNoFallback
<1>2. CASE Get(2)
  <2>1. /\ load.phase = "config" /\ load'.phase = "reply" /\ load'.known = load.known
        /\ load'.fallback = ~Known(table, load.merchant)
    <3>1. 2 \in 1..2
      OBVIOUS
    <3> QED  BY <1>2, <3>1, GetType
  <2> QED  BY <2>1 DEF KnownStays, KnownIsNoFallback
<1>3. ASSUME load' = NoRequest PROVE KnownStays' /\ KnownIsNoFallback'
  BY <1>3 DEF NoRequest, KnownStays, KnownIsNoFallback
<1>4. CASE Load
  BY <1>4 DEF Load, GetOrder, KnownStays, KnownIsNoFallback
<1>5. ASSUME UNCHANGED load PROVE KnownStays' /\ KnownIsNoFallback'
  <2>1. CASE load = NoRequest
    BY <1>5, <2>1 DEF NoRequest, KnownStays, KnownIsNoFallback
  <2>2. CASE load \in Loads
    <3>1. load.merchant \in Merchants
      BY <2>2 DEF Loads
    <3>2. KnownStays'
      BY <1>5, <3>1, RowsStay DEF KnownStays
    <3> QED  BY <1>5, <3>2 DEF KnownIsNoFallback
  <2> QED  BY <2>1, <2>2 DEF Typed, TypeOK
<1>6. \A step \in 1..2 : step = 1 \/ step = 2
  OBVIOUS
<1> QED
  BY <1>1, <1>2, <1>3, <1>4, <1>5, <1>6
  DEF Next, OtherPost, SavePost, Crash, EditId, EditField, LoadDone, LoadFails, Save, SaveDone,
      SaveFails, vars

\* GET never answers "known" with the values of the fallback, although posts
\* and restarts can fall between its two reads.
THEOREM KnownNeverFallsBack == Spec => []KnownIsNoFallback
<1>1. Init => KnownStays /\ KnownIsNoFallback
  BY DEF Init, NoRequest, KnownStays, KnownIsNoFallback
<1> QED  BY <1>1, KnownNext, AlwaysTyped, PTL DEF Spec

-----------------------------------------------------------------------------
(* The form's merchant                                                     *)

\* As long as no request was crossed, the form, its requests and the rows they
\* come from are about one merchant.
Aligned ==
  ~crossed =>
    /\ form.loaded => form.base.merchant = form.id
    /\ load # NoRequest => load.merchant = form.id /\ load.base.merchant = form.id
    /\ save # NoRequest => save.merchant = form.id /\ save.base.merchant = form.id

LEMMA AlignedNext == Typed /\ Aligned /\ [Next]_vars => Aligned'
<1> SUFFICES ASSUME Typed, Aligned, [Next]_vars PROVE Aligned'
  OBVIOUS
<1> USE DEF Aligned
<1>1. CASE OtherPost
  BY <1>1 DEF OtherPost
<1>2. CASE SavePost
  <2>1. save # NoRequest /\ save'.merchant = save.merchant /\ save'.base.merchant = save.merchant
    BY <1>2, SavePostType, NoRequestIsApart
  <2> QED  BY <1>2, <2>1 DEF SavePost
<1>3. CASE Crash
  BY <1>3 DEF Crash, Typed, TypeOK
<1>4. ASSUME NEW step \in 1..2, Get(step) PROVE Aligned'
  <2>1. load \in Loads /\ load'.merchant = load.merchant /\ load # NoRequest
    BY <1>4, GetType, NoRequestIsApart
  <2>2. load'.base = load.base \/ load'.base = Base(load.merchant)
    <3>1. step = 1 \/ step = 2
      OBVIOUS
    <3> QED  BY <1>4, <3>1, GetType
  <2> QED  BY <1>4, <2>1, <2>2 DEF Get, Base
<1>5. CASE EditId
  BY <1>5 DEF EditId, Typed, TypeOK
<1>6. CASE EditField
  <2>1. form'.loaded = form.loaded /\ form'.base = form.base /\ form'.id = form.id
    BY <1>6 DEF EditField, Typed, TypeOK
  <2> QED  BY <1>6, <2>1 DEF EditField
<1>7. CASE Load
  BY <1>7 DEF Load, Base
<1>8. CASE LoadDone
  <2>1. load # NoRequest
    BY <1>8 DEF LoadDone, NoRequest
  <2> QED  BY <1>8, <2>1 DEF LoadDone, Typed, TypeOK
<1>9. CASE LoadFails
  BY <1>9 DEF LoadFails, Typed, TypeOK
<1>10. CASE Save
  BY <1>10 DEF Save
<1>11. CASE SaveDone
  <2>1. save # NoRequest
    BY <1>11 DEF SaveDone, NoRequest
  <2> QED  BY <1>11, <2>1 DEF SaveDone, Typed, TypeOK
<1>12. CASE SaveFails
  BY <1>12 DEF SaveFails
<1>13. CASE UNCHANGED vars
  BY <1>13 DEF vars
<1> QED
  BY <1>1, <1>2, <1>3, <1>4, <1>5, <1>6, <1>7, <1>8, <1>9, <1>10, <1>11, <1>12, <1>13 DEF Next

\* The form saves values for the merchant they were loaded for, unless the id
\* was edited while a request was in flight.
THEOREM SavesGoHome == Spec => []SavedWhereLoaded
<1>1. Init => Aligned
  BY DEF Init, Aligned
<1>2. Aligned => SavedWhereLoaded
  BY DEF Aligned, SavedWhereLoaded, NoRequest
<1> QED  BY <1>1, <1>2, AlignedNext, AlwaysTyped, PTL DEF Spec

-----------------------------------------------------------------------------
(* The form's values                                                       *)

\* With a table t whose rows were written w times: unless its row was written
\* since base was taken, config is that row except where it was edited.
Agree(t, w, config, base, edited) ==
  /\ base.version <= w[base.merchant]
  /\ base.version = w[base.merchant] =>
       \A f \in Fields \ edited : config[f] = Effective(t, base.merchant)[f]

\* A stale base stays stale, since versions only grow.
FormAgrees == form.loaded => Agree(table, writes, form.config, form.base, form.edited)

LoadAgrees ==
  /\ load # NoRequest => load.base.version <= writes[load.base.merchant]
  /\ load.phase = "reply" => Agree(table, writes, load.config, load.base, {})

SaveAgrees ==
  /\ save.phase = "sent" => Agree(table, writes, save.request, save.base, save.edited)
  /\ save.phase = "reply" => Agree(table, writes, save.row, save.base, {})

IInv == Typed /\ FormAgrees /\ LoadAgrees /\ SaveAgrees

\* A post makes what came from its merchant's row stale, and nothing else.
LEMMA RegisterKeepsAgreement ==
  ASSUME Typed, NEW m \in Merchants, NEW r \in Configs \cup Requests, Register(m, r),
         NEW config, NEW base \in Bases, NEW edited,
         base.version <= writes[base.merchant]
  PROVE  /\ base.version <= writes'[base.merchant]
         /\ Agree(table, writes, config, base, edited) => Agree(table', writes', config, base, edited)
<1>1. base.merchant \in Merchants /\ base.version \in Nat
  BY DEF Bases
<1>2. writes' = [writes EXCEPT ![m] = @ + 1] /\ table' = [table EXCEPT ![m] = Filled(m, r)]
  BY DEF Register
<1>3. writes \in [Merchants -> Nat] /\ table \in [Merchants -> Configs \cup {Unregistered}]
  BY DEF Typed, TypeOK
<1>4. CASE base.merchant = m
  BY <1>1, <1>2, <1>3, <1>4 DEF Agree
<1>5. CASE base.merchant # m
  <2>1. writes'[base.merchant] = writes[base.merchant] /\ table'[base.merchant] = table[base.merchant]
    BY <1>1, <1>2, <1>3, <1>5
  <2> QED  BY <2>1 DEF Agree, Effective
<1> QED  BY <1>4, <1>5

\* The bases of whatever the form and its requests hold.
LEMMA HeldBases ==
  ASSUME Typed
  PROVE  /\ form.base \in Bases
         /\ load # NoRequest => load.base \in Bases
         /\ save # NoRequest => save.base \in Bases
BY DEF Typed, TypeOK, Loads, Saves

LEMMA PostKeepsForm ==
  ASSUME IInv, NEW m \in Merchants, NEW r \in Configs \cup Requests, Register(m, r), UNCHANGED form
  PROVE  FormAgrees'
<1> SUFFICES ASSUME form.loaded
             PROVE  Agree(table', writes', form.config, form.base, form.edited)
  BY DEF FormAgrees
<1>1. Agree(table, writes, form.config, form.base, form.edited)
  BY DEF IInv, FormAgrees
<1>2. form.base \in Bases /\ form.base.version <= writes[form.base.merchant]
  BY <1>1, HeldBases DEF IInv, Agree
<1> QED  BY <1>1, <1>2, RegisterKeepsAgreement DEF IInv

LEMMA PostKeepsLoad ==
  ASSUME IInv, NEW m \in Merchants, NEW r \in Configs \cup Requests, Register(m, r), UNCHANGED load
  PROVE  LoadAgrees'
<1>1. CASE load = NoRequest
  BY <1>1 DEF LoadAgrees, NoRequest
<1>2. CASE load # NoRequest
  <2>1. load.base \in Bases /\ load.base.version <= writes[load.base.merchant]
    BY <1>2, HeldBases DEF IInv, LoadAgrees
  <2>2. load.base.version <= writes'[load.base.merchant]
    BY <2>1, RegisterKeepsAgreement DEF IInv
  <2>3. load.phase = "reply" => Agree(table', writes', load.config, load.base, {})
    BY <2>1, RegisterKeepsAgreement DEF IInv, LoadAgrees
  <2> QED  BY <2>2, <2>3 DEF LoadAgrees
<1> QED  BY <1>1, <1>2

LEMMA PostKeepsSave ==
  ASSUME IInv, NEW m \in Merchants, NEW r \in Configs \cup Requests, Register(m, r), UNCHANGED save
  PROVE  SaveAgrees'
<1>1. ASSUME NEW config, NEW edited, save # NoRequest,
             Agree(table, writes, config, save.base, edited)
      PROVE  Agree(table', writes', config, save.base, edited)
  <2>1. save.base \in Bases /\ save.base.version <= writes[save.base.merchant]
    BY <1>1, HeldBases DEF IInv, Agree
  <2> QED  BY <1>1, <2>1, RegisterKeepsAgreement DEF IInv
<1>2. save.phase \in {"sent", "reply"} => save # NoRequest
  BY DEF NoRequest
<1> QED  BY <1>1, <1>2 DEF IInv, SaveAgrees

LEMMA IInvNext == IInv /\ [Next]_vars => IInv'
<1> SUFFICES ASSUME IInv, [Next]_vars PROVE IInv'
  OBVIOUS
<1> USE DEF IInv
<1>0. Typed'
  BY TypedNext
<1>1. CASE OtherPost
  BY <1>0, <1>1, PostKeepsForm, PostKeepsLoad, PostKeepsSave DEF OtherPost
<1>2. CASE SavePost
  <2>1. /\ save.merchant \in Merchants /\ save.request \in Configs
        /\ Register(save.merchant, save.request)
    BY <1>2, SavePostType DEF Saves
  <2>2. FormAgrees' /\ LoadAgrees'
    BY <1>2, <2>1, PostKeepsForm, PostKeepsLoad DEF SavePost
  <2>3. Effective(table', save.merchant) = save.request
    <3>1. table'[save.merchant] = Filled(save.merchant, save.request)
      BY <2>1 DEF Register, Typed, TypeOK
    <3>2. Filled(save.merchant, save.request) = save.request
      BY <2>1, ConfigIsFull DEF Filled
    <3> QED  BY <2>1, <3>1, <3>2 DEF Effective
  <2>4. /\ save'.phase = "reply" /\ save'.row = save.request
        /\ save'.base = [merchant |-> save.merchant, version |-> writes'[save.merchant]]
    BY <1>2, SavePostType
  <2>5. writes'[save.merchant] \in Nat
    BY <2>1, RegisterType
  <2>6. Agree(table', writes', save.request, save'.base, {})
    BY <2>3, <2>4, <2>5 DEF Agree
  <2>7. SaveAgrees'
    BY <2>4, <2>6 DEF SaveAgrees
  <2> QED  BY <1>0, <2>2, <2>7
<1>3. CASE Crash
  BY <1>0, <1>3 DEF Crash, NoRequest, FormAgrees, LoadAgrees, SaveAgrees, Typed, TypeOK
<1>4. ASSUME NEW step \in 1..2, Get(step) PROVE IInv'
  <2>1. load \in Loads /\ load # NoRequest
    BY <1>4, GetType, NoRequestIsApart
  <2>2. CASE step = 1
    <3>1. load'.phase = "config" /\ load'.base = load.base
      BY <1>4, <2>2, GetType
    <3>2. LoadAgrees'
      BY <1>4, <2>1, <3>1 DEF LoadAgrees, Get
    <3> QED  BY <1>0, <1>4, <3>2 DEF Get, FormAgrees, SaveAgrees
  <2>3. CASE step = 2
    <3>1. /\ load'.config = Effective(table, load.merchant)
          /\ load'.base = Base(load.merchant)
      BY <1>4, <2>3, GetType
    <3>2. writes[load.merchant] \in Nat
      BY <2>1 DEF Typed, TypeOK, Loads
    <3>3. Agree(table, writes, load'.config, load'.base, {})
      BY <3>1, <3>2 DEF Agree, Base
    <3>4. LoadAgrees'
      BY <1>4, <3>3 DEF LoadAgrees, Agree, Get
    <3> QED  BY <1>0, <1>4, <3>4 DEF Get, FormAgrees, SaveAgrees
  <2> QED  BY <2>2, <2>3
<1>5. CASE EditId
  BY <1>0, <1>5 DEF EditId, FormAgrees, LoadAgrees, SaveAgrees, Typed, TypeOK
<1>6. CASE EditField
  <2>1. form \in [id : Merchants, config : Configs, loaded : BOOLEAN, edited : SUBSET Fields, base : Bases]
    BY DEF Typed, TypeOK
  <2> DEFINE Kept == /\ form'.base = form.base /\ form'.loaded = form.loaded
                     /\ form.edited \subseteq form'.edited
                     /\ \A f \in Fields \ form'.edited : form'.config[f] = form.config[f]
  <2>2. Kept
    <3>1. ASSUME NEW w \in Windows,
                 form' = [form EXCEPT !.config.window = w, !.edited = @ \cup {"window"}]
          PROVE  Kept
      BY <2>1, <3>1 DEF Configs, Fields
    <3>2. ASSUME NEW t \in Thresholds,
                 form' = [form EXCEPT !.config.threshold = t, !.edited = @ \cup {"threshold"}]
          PROVE  Kept
      BY <2>1, <3>2 DEF Configs, Fields
    <3> QED  BY <1>6, <3>1, <3>2 DEF EditField
  <2>3. FormAgrees'
    BY <1>6, <2>2 DEF EditField, FormAgrees, Agree
  <2> QED  BY <1>0, <1>6, <2>3 DEF EditField, LoadAgrees, SaveAgrees
<1>7. CASE Load
  <2>1. form.id \in Merchants /\ writes[form.id] \in Nat
    BY DEF Typed, TypeOK
  <2>2. load'.phase = "known" /\ load'.base = Base(form.id)
    BY <1>7 DEF Load, GetOrder
  <2>3. LoadAgrees'
    BY <1>7, <2>1, <2>2 DEF Load, LoadAgrees, Base
  <2> QED  BY <1>0, <1>7, <2>3 DEF Load, FormAgrees, SaveAgrees
<1>8. CASE LoadDone
  <2>1. /\ form'.config = load.config /\ form'.base = load.base /\ form'.edited = {}
        /\ load' = NoRequest /\ UNCHANGED <<table, writes, save>>
    BY <1>8 DEF LoadDone, Typed, TypeOK
  <2>2. Agree(table, writes, load.config, load.base, {})
    BY <1>8 DEF LoadDone, LoadAgrees
  <2> QED  BY <1>0, <2>1, <2>2 DEF FormAgrees, LoadAgrees, SaveAgrees, NoRequest
<1>9. CASE LoadFails
  BY <1>0, <1>9 DEF LoadFails, NoRequest, FormAgrees, LoadAgrees, SaveAgrees, Typed, TypeOK
<1>10. CASE Save
  BY <1>0, <1>10 DEF Save, Sent, FormAgrees, LoadAgrees, SaveAgrees
<1>11. CASE SaveDone
  <2>1. /\ form'.config = save.row /\ form'.base = save.base /\ form'.edited = {}
        /\ save' = NoRequest /\ UNCHANGED <<table, writes, load>>
    BY <1>11 DEF SaveDone, Typed, TypeOK
  <2>2. Agree(table, writes, save.row, save.base, {})
    BY <1>11 DEF SaveDone, SaveAgrees
  <2> QED  BY <1>0, <2>1, <2>2 DEF FormAgrees, LoadAgrees, SaveAgrees, NoRequest
<1>12. CASE SaveFails
  BY <1>0, <1>12 DEF SaveFails, NoRequest, FormAgrees, LoadAgrees, SaveAgrees
<1>13. CASE UNCHANGED vars
  BY <1>0, <1>13 DEF vars, FormAgrees, LoadAgrees, SaveAgrees
<1> QED
  BY <1>1, <1>2, <1>3, <1>4, <1>5, <1>6, <1>7, <1>8, <1>9, <1>10, <1>11, <1>12, <1>13 DEF Next

\* A save resets no field that the user did not edit, unless somebody wrote the
\* row since the form's values came from it.
THEOREM SavesResetNothing == Spec => UneditedFieldsSurvive
<1>1. Init => IInv
  <2> SUFFICES ASSUME Init PROVE IInv
    OBVIOUS
  <2>1. ~form.loaded
    BY DEF Init
  <2>2. load = NoRequest /\ save = NoRequest
    BY DEF Init
  <2> QED  BY <2>1, <2>2, TypedInit DEF IInv, NoRequest, FormAgrees, LoadAgrees, SaveAgrees
<1>2. IInv /\ [Next]_vars =>
        [(SavePost /\ save.base = Base(save.merchant)) =>
           \A f \in Fields \ save.edited :
             table'[save.merchant][f] = Effective(table, save.merchant)[f]]_vars
  <2> SUFFICES ASSUME IInv, SavePost, save.base = Base(save.merchant),
                      NEW f \in Fields \ save.edited
               PROVE  table'[save.merchant][f] = Effective(table, save.merchant)[f]
    OBVIOUS
  <2>1. /\ save.merchant \in Merchants /\ save.request \in Configs /\ save.phase = "sent"
        /\ Register(save.merchant, save.request)
    BY SavePostType DEF IInv, Saves
  <2>2. table'[save.merchant] = save.request
    <3>1. table'[save.merchant] = Filled(save.merchant, save.request)
      BY <2>1 DEF Register, IInv, Typed, TypeOK
    <3> QED  BY <2>1, <3>1, ConfigIsFull DEF Filled
  <2>3. save.request[f] = Effective(table, save.merchant)[f]
    BY <2>1 DEF IInv, SaveAgrees, Agree, Base
  <2> QED  BY <2>2, <2>3
<1> QED  BY <1>1, <1>2, IInvNext, PTL DEF Spec, UneditedFieldsSurvive
=============================================================================
