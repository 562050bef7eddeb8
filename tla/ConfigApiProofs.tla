--------------------------- MODULE ConfigApiProofs ---------------------------
(***************************************************************************)
(* Theorems about ConfigApi, for any handlers, accounts, master keys and   *)
(* environment.  The types alone are not inductive: that no empty value is *)
(* ever stored needs what an open request still has to save.               *)
(***************************************************************************)
EXTENDS ConfigApi, TLAPS

\* A request has only settings left that its body names.
LeftIsNamed == \A h \in Handlers : post[h].left \subseteq Named(post[h].body)

TypeInv == TypeOK /\ LeftIsNamed

-----------------------------------------------------------------------------
LEMMA FollowingType == \A s \in Settings : Following(s) \in Settings \cup {"done"}
  BY DEF Settings, Following

LEMMA BodiesArePayloads == Bodies \subseteq Payload
  BY DEF Bodies

LEMMA Bounds == MaxPosts \in Nat /\ MaxFailures \in Nat /\ MaxRestarts \in Nat
  BY ConfigAssumption

LEMMA UsedType ==
    ASSUME TypeOK
    PROVE  used.posts \in Nat /\ used.failures \in Nat /\ used.restarts \in Nat
  BY Bounds DEF TypeOK

\* What a request has left to save is not empty.
LEMMA NamedValue ==
    ASSUME TypeInv, NEW h \in Handlers, NEW s \in post[h].left
    PROVE  s \in Settings /\ post[h].body[s] \in Values \ {""}
<1>1. post[h].body \in Payload /\ post[h].left \subseteq Settings
  BY DEF TypeInv, TypeOK
<1>2. s \in Named(post[h].body)
  BY DEF TypeInv, LeftIsNamed
<1>3. s \in Settings /\ post[h].body[s] # ""
  BY <1>2 DEF Named
<1> QED
  BY <1>1, <1>3 DEF Payload

LEMMA StatementType ==
    ASSUME TypeOK, NEW ok \in BOOLEAN, Statement(ok)
    PROVE  used' \in [posts : 0 .. MaxPosts, failures : 0 .. MaxFailures, restarts : 0 .. MaxRestarts]
<1>1. used.failures \in 0 .. MaxFailures
  BY DEF TypeOK
<1>2. ~ok => used.failures + 1 \in 0 .. MaxFailures
  BY UsedType, Bounds DEF Statement
<1>3. (IF ok THEN used.failures ELSE used.failures + 1) \in 0 .. MaxFailures
  BY <1>1, <1>2
<1> QED
  BY <1>3 DEF TypeOK, Statement

\* Whatever GetConfig returns is a value: of a readable row or of the environment.
LEMMA GetConfigType ==
    ASSUME TypeOK, NEW s \in Settings, NEW ok \in BOOLEAN
    PROVE  GetConfig(s, ok) \in Values
  BY ConfigAssumption DEF TypeOK, GetConfig, Decrypts, Row

LEMMA SavedType ==
    ASSUME TypeOK, NEW s \in Settings, NEW value \in Values \ {""}
    PROVE  Saved(s, value) \in [Settings -> Row \cup {Unknown}]
<1>1. [value |-> value, under |-> masterKey] \in Row
  BY DEF TypeOK, Row
<1> QED
  BY <1>1 DEF TypeOK, Saved

LEMMA InitType == Init => TypeInv
<1> SUFFICES ASSUME Init PROVE TypeInv
  OBVIOUS
<1>1. [s \in Settings |-> ""] \in Payload
  BY DEF Payload, Values
<1>2. [s \in Settings |-> Unknown] \in [Settings -> Values \cup {Unknown}]
  OBVIOUS
<1>3. /\ engine \in [next : Settings \cup {"done"}, got : Payload,
                      expected : [Settings -> Values \cup {Unknown}],
                      blind : BOOLEAN, mixable : BOOLEAN, mode : {"none", "simulated", "live"}]
      /\ post \in [Handlers -> [body : Payload, left : SUBSET Settings, clean : BOOLEAN, open : BOOLEAN]]
  <2>1. "key" \in Settings
    BY DEF Settings
  <2> QED
    BY <1>1, <1>2, <2>1 DEF Init, NoPost, Start
<1>4. used \in [posts : 0 .. MaxPosts, failures : 0 .. MaxFailures, restarts : 0 .. MaxRestarts]
  BY Bounds DEF Init
<1>5. settled \in [Settings -> Values \cup {Unknown}]
  BY ConfigAssumption DEF Init
<1>6. TypeOK
  BY <1>3, <1>4, <1>5 DEF Init, TypeOK
<1> QED
  BY <1>6 DEF TypeInv, LeftIsNamed, Init, NoPost

-----------------------------------------------------------------------------
(* Every action keeps TypeInv *)

LEMMA PostType ==
    ASSUME TypeInv, NEW h \in Handlers, NEW body \in Payload, Post(h, body)
    PROVE  TypeInv'
<1> DEFINE fresh == [body |-> body, left |-> Named(body), open |-> TRUE,
                     clean |-> \A other \in Handlers : ~Open(other)]
           Request == [body : Payload, left : SUBSET Settings, clean : BOOLEAN, open : BOOLEAN]
<1>1. fresh \in Request
  BY DEF Named
<1>2. \A g \in Handlers : post[g] \in Request /\ [post[g] EXCEPT !.clean = FALSE] \in Request
  BY DEF TypeInv, TypeOK
<1>3. \A g \in Handlers :
        post'[g] \in {fresh, post[g], [post[g] EXCEPT !.clean = FALSE]}
  BY DEF Post
<1>4. post' \in [Handlers -> Request]
  BY <1>1, <1>2, <1>3 DEF Post
<1>5. settled' \in [Settings -> Values \cup {Unknown}]
  BY DEF Post, TypeInv, TypeOK
<1>6. used' \in [posts : 0 .. MaxPosts, failures : 0 .. MaxFailures, restarts : 0 .. MaxRestarts]
  <2>1. used.posts < MaxPosts
    BY DEF Post
  <2>2. used.posts + 1 \in 0 .. MaxPosts
    BY <2>1, UsedType, Bounds DEF TypeInv
  <2> QED
    BY <2>2 DEF Post, TypeInv, TypeOK
<1>7. TypeOK'
  BY <1>4, <1>5, <1>6 DEF Post, TypeInv, TypeOK
<1>8. \A g \in Handlers : post'[g].left \subseteq Named(post'[g].body)
  BY <1>2, <1>3 DEF TypeInv, LeftIsNamed
<1> QED
  BY <1>7, <1>8 DEF TypeInv, LeftIsNamed, Named

LEMMA SaveType ==
    ASSUME TypeInv, NEW h \in Handlers, NEW s \in Settings, NEW ok \in BOOLEAN, Save(h, s, ok)
    PROVE  TypeInv'
<1>1. post[h].body[s] \in Values \ {""}
  BY NamedValue DEF Save
<1>2. table' \in [Settings -> Row \cup {Unknown}]
  BY <1>1, SavedType DEF Save, TypeInv, TypeOK
<1>3. post' \in [Handlers -> [body : Payload, left : SUBSET Settings, clean : BOOLEAN, open : BOOLEAN]]
  <2>1. post \in [Handlers -> [body : Payload, left : SUBSET Settings, clean : BOOLEAN, open : BOOLEAN]]
    BY DEF TypeInv, TypeOK
  <2>2. post' = [post EXCEPT ![h].left = post[h].left \ {s}, ![h].clean = post[h].clean /\ ok]
    BY DEF Save
  <2> QED
    BY <2>1, <2>2
<1>4. used' \in [posts : 0 .. MaxPosts, failures : 0 .. MaxFailures, restarts : 0 .. MaxRestarts]
  BY StatementType DEF Save, TypeInv
<1>5. /\ settled' \in [Settings -> Values \cup {Unknown}]
      /\ halves' \in BOOLEAN /\ masterKey' = masterKey
  BY DEF Save, TypeInv, TypeOK
<1>6. engine' \in [next : Settings \cup {"done"}, got : Payload,
                   expected : [Settings -> Values \cup {Unknown}],
                   blind : BOOLEAN, mixable : BOOLEAN, mode : {"none", "simulated", "live"}]
  BY DEF Save, TypeInv, TypeOK
<1>7. TypeOK'
  BY <1>2, <1>3, <1>4, <1>5, <1>6 DEF TypeInv, TypeOK
<1>8. \A g \in Handlers : post'[g].body = post[g].body /\ post'[g].left \subseteq post[g].left
  BY DEF Save, TypeInv, TypeOK
<1> QED
  BY <1>7, <1>8 DEF TypeInv, LeftIsNamed, Named

LEMMA AnswerType ==
    ASSUME TypeInv, NEW h \in Handlers, Answer(h)
    PROVE  TypeInv'
<1>1. [s \in Settings |-> ""] \in Payload
  BY DEF Payload, Values
<1>2. post' \in [Handlers -> [body : Payload, left : SUBSET Settings, clean : BOOLEAN, open : BOOLEAN]]
  BY <1>1 DEF Answer, NoPost, TypeInv, TypeOK
<1>3. settled' \in [Settings -> Values \cup {Unknown}]
  BY DEF Answer, TypeInv, TypeOK, Payload
<1>4. halves' \in BOOLEAN
  BY DEF Answer, TypeInv, TypeOK
<1>5. TypeOK'
  BY <1>2, <1>3, <1>4 DEF Answer, TypeInv, TypeOK
<1>6. \A g \in Handlers : post'[g] = post[g] \/ post'[g].left = {}
  BY DEF Answer, NoPost, TypeInv, TypeOK
<1> QED
  BY <1>5, <1>6 DEF TypeInv, LeftIsNamed, Named

LEMMA ReadType ==
    ASSUME TypeInv, NEW ok \in BOOLEAN, Read(ok)
    PROVE  TypeInv'
<1> DEFINE s == engine.next
<1>1. s \in Settings
  BY DEF Read, TypeInv, TypeOK
<1>2. GetConfig(s, ok) \in Values
  BY <1>1, GetConfigType DEF TypeInv
<1>3. [engine.got EXCEPT ![s] = GetConfig(s, ok)] \in Payload
  BY <1>1, <1>2 DEF TypeInv, TypeOK, Payload
<1>4. [engine.expected EXCEPT ![s] = settled[s]] \in [Settings -> Values \cup {Unknown}]
  BY <1>1 DEF TypeInv, TypeOK
<1>5. Following(s) \in Settings \cup {"done"}
  BY <1>1, FollowingType
<1>6. engine' \in [next : Settings \cup {"done"}, got : Payload,
                   expected : [Settings -> Values \cup {Unknown}],
                   blind : BOOLEAN, mixable : BOOLEAN, mode : {"none", "simulated", "live"}]
  BY <1>1, <1>3, <1>4, <1>5 DEF Read, TypeInv, TypeOK
<1>7. used' \in [posts : 0 .. MaxPosts, failures : 0 .. MaxFailures, restarts : 0 .. MaxRestarts]
  BY StatementType DEF Read, TypeInv
<1> QED
  BY <1>6, <1>7 DEF Read, TypeInv, TypeOK, LeftIsNamed, Named

LEMMA RestartType ==
    ASSUME TypeInv, Restart
    PROVE  TypeInv'
<1>1. [s \in Settings |-> ""] \in Payload
  BY DEF Payload, Values
<1>2. post' \in [Handlers -> [body : Payload, left : SUBSET Settings, clean : BOOLEAN, open : BOOLEAN]]
  BY <1>1 DEF Restart, NoPost
<1>3. engine' \in [next : Settings \cup {"done"}, got : Payload,
                   expected : [Settings -> Values \cup {Unknown}],
                   blind : BOOLEAN, mixable : BOOLEAN, mode : {"none", "simulated", "live"}]
  BY <1>1 DEF Restart, Start, Settings
<1>4. settled' \in [Settings -> Values \cup {Unknown}]
  BY DEF Restart, TypeInv, TypeOK
<1>5. used' \in [posts : 0 .. MaxPosts, failures : 0 .. MaxFailures, restarts : 0 .. MaxRestarts]
  <2>1. used.restarts + 1 \in 0 .. MaxRestarts
    BY UsedType, Bounds DEF Restart, TypeInv
  <2> QED
    BY <2>1 DEF Restart, TypeInv, TypeOK
<1> QED
  BY <1>2, <1>3, <1>4, <1>5 DEF Restart, TypeInv, TypeOK, LeftIsNamed, NoPost

LEMMA NextType == TypeInv /\ [Next]_vars => TypeInv'
<1> SUFFICES ASSUME TypeInv, [Next]_vars PROVE TypeInv'
  OBVIOUS
<1>1. ASSUME NEW h \in Handlers, NEW body \in Bodies, Post(h, body) PROVE TypeInv'
  BY <1>1, PostType, BodiesArePayloads
<1>2. ASSUME NEW h \in Handlers, NEW s \in Settings, NEW ok \in BOOLEAN, Save(h, s, ok)
      PROVE  TypeInv'
  BY <1>2, SaveType
<1>3. ASSUME NEW h \in Handlers, Answer(h) PROVE TypeInv'
  BY <1>3, AnswerType
<1>4. ASSUME NEW ok \in BOOLEAN, Read(ok) PROVE TypeInv'
  BY <1>4, ReadType
<1>5. CASE Restart
  BY <1>5, RestartType
<1>6. CASE UNCHANGED vars
  BY <1>6 DEF vars, TypeInv, TypeOK, LeftIsNamed, Named
<1> QED
  BY <1>1, <1>2, <1>3, <1>4, <1>5, <1>6 DEF Next

\* Whatever is posted, fails or restarts, every row of the table holds a value that is
\* not empty, and the engine has read values: SetConfig, GetConfig and the POST loop.
THEOREM TypeCorrect == Spec => []TypeOK
<1>1. TypeInv => TypeOK
  BY DEF TypeInv
<1> QED
  BY <1>1, InitType, NextType, PTL DEF Spec

-----------------------------------------------------------------------------
(* Settings do not disappear *)

\* Afterwards the setting that was saved reads as the value of the body, and the others
\* as before; a failed save changes none.
LEMMA SaveReads ==
    ASSUME TypeInv, NEW h \in Handlers, NEW s \in Settings, NEW ok \in BOOLEAN, Save(h, s, ok),
           NEW t \in Settings
    PROVE  (GetConfig(t, TRUE))' = IF ok /\ t = s THEN post[h].body[s] ELSE GetConfig(t, TRUE)
<1> DEFINE value == post[h].body[s]
<1>1. value \in Values \ {""}
  BY NamedValue DEF Save
<1>2. masterKey' = masterKey
  BY DEF Save
<1>3. CASE ok /\ t = s
  <2>1. table'[t] = [value |-> value, under |-> masterKey]
    BY <1>3 DEF Save, Saved, TypeInv, TypeOK
  <2>2. table'[t] # Unknown
    BY <2>1, <1>1, ConfigAssumption DEF TypeInv, TypeOK
  <2>3. [value |-> value, under |-> masterKey].value = value
        /\ [value |-> value, under |-> masterKey].under = masterKey
    OBVIOUS
  <2>4. table'[t].value = value /\ table'[t].under = masterKey
    BY <2>1, <2>3
  <2> QED
    BY <2>2, <2>4, <1>2, <1>3 DEF GetConfig, Decrypts
<1>4. CASE ~(ok /\ t = s)
  <2>1. table'[t] = table[t]
    BY <1>4 DEF Save, Saved, TypeInv, TypeOK
  <2> QED
    BY <2>1, <1>2, <1>4 DEF GetConfig, Decrypts
<1> QED
  BY <1>3, <1>4

LEMMA SameReads ==
    ASSUME table' = table, masterKey' = masterKey
    PROVE  \A t \in Settings : (GetConfig(t, TRUE))' = GetConfig(t, TRUE)
  BY DEF GetConfig, Decrypts

\* No request, whatever it names, and no failure takes a setting away: GetConfig of a
\* setting that has a value keeps returning one, as long as the master key stays.
THEOREM ConfiguredStaysHolds == Spec => ConfiguredStays
<1>1. ASSUME TypeInv, [Next]_vars, masterKey' = masterKey,
             NEW t \in Settings, GetConfig(t, TRUE) # ""
      PROVE  (GetConfig(t, TRUE))' # ""
  <2>1. ASSUME NEW h \in Handlers, NEW s \in Settings, NEW ok \in BOOLEAN, Save(h, s, ok)
        PROVE  (GetConfig(t, TRUE))' # ""
    <3>1. s \in post[h].left
      BY <2>1 DEF Save
    <3>2. post[h].body[s] # ""
      BY <1>1, <3>1, NamedValue
    <3>3. (GetConfig(t, TRUE))' = IF ok /\ t = s THEN post[h].body[s] ELSE GetConfig(t, TRUE)
      BY <1>1, <2>1, SaveReads, ZenonT(30)
    <3> QED
      BY <1>1, <3>2, <3>3
  <2>2. CASE table' = table
    BY <2>2, <1>1, SameReads
  <2> QED
    BY <2>1, <2>2, <1>1 DEF Next, vars, Post, Answer, Read, Restart
<1>2. TypeInv /\ [Next]_vars =>
        [masterKey' = masterKey =>
           \A s \in Settings : GetConfig(s, TRUE) # "" => (GetConfig(s, TRUE))' # ""]_vars
  BY <1>1
<1> QED
  BY <1>2, InitType, NextType, PTL DEF Spec, ConfiguredStays

-----------------------------------------------------------------------------
(* What the engine starts with *)

\* A clean request is open alone, and what it has saved so far can be read.
CleanIsAlone ==
    \A h \in Handlers : Open(h) /\ post[h].clean =>
      /\ \A g \in Handlers : Open(g) => g = h
      /\ \A s \in Named(post[h].body) \ post[h].left : GetConfig(s, TRUE) = post[h].body[s]

\* A settled setting reads as what it was settled to, and no request is about to save it.
SettledIsRead ==
    \A s \in Settings : settled[s] # Unknown =>
      /\ GetConfig(s, TRUE) = settled[s]
      /\ \A h \in Handlers : Open(h) => s \notin post[h].left

SettledInv == CleanIsAlone /\ SettledIsRead /\ StartUsesSettled

LEMMA InitSettled == Init => SettledInv
<1> SUFFICES ASSUME Init PROVE SettledInv
  OBVIOUS
<1>1. \A h \in Handlers : ~Open(h)
  BY DEF Init, NoPost, Open
<1>2. \A s \in Settings : GetConfig(s, TRUE) = settled[s]
  BY DEF Init, GetConfig, Decrypts
<1>3. \A s \in Settings : engine.expected[s] = Unknown
  BY DEF Init, Start
<1> QED
  BY <1>1, <1>2, <1>3 DEF SettledInv, CleanIsAlone, SettledIsRead, StartUsesSettled

LEMMA PostSettled ==
    ASSUME TypeInv, SettledInv, NEW h \in Handlers, NEW body \in Payload, Post(h, body)
    PROVE  SettledInv'
<1>1. \A s \in Settings : (GetConfig(s, TRUE))' = GetConfig(s, TRUE)
  BY SameReads DEF Post
<1>2. /\ post'[h].body = body /\ post'[h].left = Named(body) /\ Open(h)'
      /\ post'[h].clean => \A g \in Handlers : ~Open(g)
  BY DEF Post, Open
<1>3. \A g \in Handlers \ {h} :
        /\ Open(g)' = Open(g) /\ post'[g].left = post[g].left /\ post'[g].body = post[g].body
        /\ ~(Open(g)' /\ post'[g].clean)
  BY DEF Post, Open, TypeInv, TypeOK
<1>4. CleanIsAlone'
  BY <1>2, <1>3 DEF CleanIsAlone, Named
<1>5. \A s \in Settings : settled'[s] # Unknown => settled'[s] = settled[s] /\ s \notin Named(body)
  BY DEF Post, Named
<1>6. SettledIsRead'
  BY ZenonT(20), <1>1, <1>2, <1>3, <1>5 DEF SettledInv, SettledIsRead
<1>7. StartUsesSettled'
  BY DEF Post, SettledInv, StartUsesSettled
<1> QED
  BY <1>4, <1>6, <1>7 DEF SettledInv

LEMMA SaveSettled ==
    ASSUME TypeInv, SettledInv, NEW h \in Handlers, NEW s \in Settings, NEW ok \in BOOLEAN,
           Save(h, s, ok)
    PROVE  SettledInv'
<1>1. /\ post'[h].body = post[h].body /\ post'[h].left = post[h].left \ {s}
      /\ Open(h)' /\ Open(h) /\ (post'[h].clean => post[h].clean /\ ok)
  BY DEF Save, Open, TypeInv, TypeOK
<1>2. \A g \in Handlers \ {h} : post'[g] = post[g]
  BY DEF Save, TypeInv, TypeOK
<1>3. \A t \in Settings :
        (GetConfig(t, TRUE))' = IF ok /\ t = s THEN post[h].body[s] ELSE GetConfig(t, TRUE)
  BY SaveReads
<1>4. \A t \in Settings : settled'[t] # Unknown => t # s /\ settled'[t] = settled[t]
  BY DEF Save, TypeInv, TypeOK
<1>5. CleanIsAlone'
  <2>1. SUFFICES ASSUME NEW g \in Handlers, Open(g)', post'[g].clean
                 PROVE  /\ \A k \in Handlers : Open(k)' => k = g
                        /\ \A t \in (Named(post[g].body) \ post[g].left)' :
                             (GetConfig(t, TRUE))' = post'[g].body[t]
    BY DEF CleanIsAlone, Named, Open
  <2>2. \A k \in Handlers : Open(k)' <=> Open(k)
    BY <1>1, <1>2 DEF Open
  <2>3. g = h
    BY <1>1, <1>2, <2>1, <2>2 DEF SettledInv, CleanIsAlone
  <2>4. ASSUME NEW t \in (Named(post[h].body) \ post[h].left)'
        PROVE  (GetConfig(t, TRUE))' = post'[h].body[t]
    <3>1. t \in Settings /\ t \in Named(post[h].body) /\ (t = s \/ t \notin post[h].left)
      BY <1>1 DEF Named
    <3>2. ok /\ (t # s => GetConfig(t, TRUE) = post[h].body[t])
      BY <1>1, <2>1, <2>3, <3>1 DEF SettledInv, CleanIsAlone
    <3> QED
      BY <1>1, <1>3, <3>1, <3>2
  <2>5. \A k \in Handlers : Open(k)' => k = h
    BY <1>1, <2>1, <2>2, <2>3 DEF SettledInv, CleanIsAlone
  <2> QED
    BY <2>3, <2>4, <2>5
<1>6. SettledIsRead'
  <2>1. \A g \in Handlers : Open(g)' => Open(g) /\ post'[g].left \subseteq post[g].left
    BY <1>1, <1>2 DEF Open
  <2> QED
    BY <1>3, <1>4, <2>1 DEF SettledInv, SettledIsRead
<1>7. engine'.expected = engine.expected /\ engine'.blind = engine.blind /\ engine'.got = engine.got
  BY DEF Save, TypeInv, TypeOK
<1>8. StartUsesSettled'
  BY <1>7 DEF SettledInv, StartUsesSettled
<1> QED
  BY <1>5, <1>6, <1>8 DEF SettledInv

LEMMA AnswerSettled ==
    ASSUME TypeInv, SettledInv, NEW h \in Handlers, Answer(h)
    PROVE  SettledInv'
<1> DEFINE clean == post[h].clean
           body == post[h].body
<1>1. \A t \in Settings : (GetConfig(t, TRUE))' = GetConfig(t, TRUE)
  BY SameReads DEF Answer
<1>2. /\ Open(h) /\ post[h].left = {} /\ ~Open(h)'
      /\ \A g \in Handlers \ {h} : post'[g] = post[g]
  BY DEF Answer, NoPost, Open, TypeInv, TypeOK
<1>3. CleanIsAlone'
  BY <1>1, <1>2 DEF SettledInv, CleanIsAlone, Open, Named
<1>4. ASSUME NEW s \in Settings, settled'[s] # Unknown
      PROVE  /\ (GetConfig(s, TRUE))' = settled'[s]
             /\ \A g \in Handlers : Open(g)' => s \notin post'[g].left
  <2>1. CASE clean /\ body[s] # ""
    <3>1. settled'[s] = body[s]
      BY <2>1 DEF Answer
    <3>2. s \in Named(body) \ post[h].left
      BY <1>2, <2>1 DEF Named
    <3>3. GetConfig(s, TRUE) = body[s] /\ \A g \in Handlers : Open(g) => g = h
      BY <1>2, <2>1, <3>2 DEF SettledInv, CleanIsAlone
    <3> QED
      BY <1>1, <1>2, <3>1, <3>3 DEF Open
  <2>2. CASE ~(clean /\ body[s] # "")
    <3>1. settled'[s] = settled[s]
      BY <2>2 DEF Answer
    <3> QED
      BY <1>1, <1>2, <1>4, <3>1 DEF SettledInv, SettledIsRead, Open
  <2> QED
    BY <2>1, <2>2
<1>5. SettledIsRead'
  BY <1>4 DEF SettledIsRead, Open
<1>6. StartUsesSettled'
  BY DEF Answer, SettledInv, StartUsesSettled
<1> QED
  BY <1>3, <1>5, <1>6 DEF SettledInv

LEMMA ReadSettled ==
    ASSUME TypeInv, SettledInv, NEW ok \in BOOLEAN, Read(ok)
    PROVE  SettledInv'
<1> DEFINE s == engine.next
<1>1. \A t \in Settings : (GetConfig(t, TRUE))' = GetConfig(t, TRUE)
  BY SameReads DEF Read
<1>2. CleanIsAlone' /\ SettledIsRead'
  BY <1>1 DEF Read, SettledInv, CleanIsAlone, SettledIsRead, Open, Named
<1>3. s \in Settings
  BY DEF Read, TypeInv, TypeOK
<1>4. /\ engine'.got = [engine.got EXCEPT ![s] = GetConfig(s, ok)]
      /\ engine'.expected = [engine.expected EXCEPT ![s] = settled[s]]
      /\ engine'.blind = (engine.blind \/ ~ok)
  BY DEF Read, TypeInv, TypeOK
<1>5. ASSUME NEW t \in Settings, engine'.expected[t] # Unknown, ~engine'.blind
      PROVE  engine'.got[t] = engine'.expected[t]
  <2>1. ok = TRUE /\ ~engine.blind
    BY <1>4, <1>5
  <2>2. CASE t = s
    <3>1. engine'.got[t] = GetConfig(s, TRUE) /\ engine'.expected[t] = settled[s]
      BY <1>3, <1>4, <2>1, <2>2 DEF TypeInv, TypeOK, Payload
    <3> QED
      BY <1>3, <1>5, <3>1 DEF SettledInv, SettledIsRead
  <2>3. CASE t # s
    <3>1. engine'.got[t] = engine.got[t] /\ engine'.expected[t] = engine.expected[t]
      BY <1>4, <2>3 DEF TypeInv, TypeOK, Payload
    <3> QED
      BY <1>5, <2>1, <3>1 DEF SettledInv, StartUsesSettled
  <2> QED
    BY <2>2, <2>3
<1> QED
  BY <1>2, <1>5 DEF SettledInv, StartUsesSettled

LEMMA RestartSettled ==
    ASSUME TypeInv, SettledInv, Restart
    PROVE  SettledInv'
<1>1. \A h \in Handlers : ~Open(h)'
  BY DEF Restart, NoPost, Open
<1>2. \A s \in Settings : settled'[s] # Unknown => masterKey' = masterKey /\ settled'[s] = settled[s]
  BY DEF Restart
<1>3. masterKey' = masterKey => \A s \in Settings : (GetConfig(s, TRUE))' = GetConfig(s, TRUE)
  BY SameReads DEF Restart
<1>4. \A s \in Settings : engine'.expected[s] = Unknown
  BY DEF Restart, Start
<1> QED
  BY <1>1, <1>2, <1>3, <1>4
  DEF SettledInv, CleanIsAlone, SettledIsRead, StartUsesSettled

LEMMA NextSettled == TypeInv /\ SettledInv /\ [Next]_vars => SettledInv'
<1> SUFFICES ASSUME TypeInv, SettledInv, [Next]_vars PROVE SettledInv'
  OBVIOUS
<1>1. ASSUME NEW h \in Handlers, NEW body \in Bodies, Post(h, body) PROVE SettledInv'
  BY <1>1, PostSettled, BodiesArePayloads
<1>2. ASSUME NEW h \in Handlers, NEW s \in Settings, NEW ok \in BOOLEAN, Save(h, s, ok)
      PROVE  SettledInv'
  BY <1>2, SaveSettled
<1>3. ASSUME NEW h \in Handlers, Answer(h) PROVE SettledInv'
  BY <1>3, AnswerSettled
<1>4. ASSUME NEW ok \in BOOLEAN, Read(ok) PROVE SettledInv'
  BY <1>4, ReadSettled
<1>5. CASE Restart
  BY <1>5, RestartSettled
<1>6. CASE UNCHANGED vars
  <2>1. \A t \in Settings : (GetConfig(t, TRUE))' = GetConfig(t, TRUE)
    BY <1>6, SameReads DEF vars
  <2> QED
    BY <1>6, <2>1
    DEF vars, SettledInv, CleanIsAlone, SettledIsRead, StartUsesSettled, Open, Named
<1> QED
  BY <1>1, <1>2, <1>3, <1>4, <1>5, <1>6 DEF Next

\* The engine starts with what the last answered request left of each setting, or the
\* environment, unless a statement failed, requests overlapped, one was open or the
\* master key changed: the loop of a request that is alone loses nothing.
THEOREM StartUsesSettledHolds == Spec => []StartUsesSettled
<1>1. TypeInv /\ SettledInv /\ [Next]_vars => TypeInv' /\ SettledInv'
  BY NextType, NextSettled
<1>2. Init => TypeInv /\ SettledInv
  BY InitType, InitSettled
<1>3. SettledInv => StartUsesSettled
  BY DEF SettledInv
<1> QED
  BY <1>1, <1>2, <1>3, PTL DEF Spec

-----------------------------------------------------------------------------
(* A key and its secret *)

\* A request that names both parts of a pair names two that belong together.
BodiesAreWhole ==
    \A h \in Handlers : LET body == post[h].body
                        IN  body["key"] # "" /\ body["secret"] # "" => body["key"] = body["secret"]

\* What a clean request has saved so far are the rows of the table.
CleanIsSaved ==
    \A h \in Handlers : Open(h) /\ post[h].clean =>
      \A s \in Named(post[h].body) \ post[h].left :
        table[s] = [value |-> post[h].body[s], under |-> masterKey]

\* The two rows came from one request, and can be read or not together.
PairIsWhole == ~halves => table["key"] = table["secret"]

\* The key that was read belongs to the pair that is still there.
KeyIsCurrent ==
    engine.next = "secret" /\ ~engine.blind /\ ~engine.mixable =>
      ~halves /\ engine.got["key"] = GetConfig("key", TRUE)

PairInv ==
    /\ BodiesAreWhole /\ CleanIsSaved /\ PairIsWhole /\ KeyIsCurrent
    /\ CredentialsBelongTogether

LEMMA PairSettings == Pair \subseteq Settings /\ "key" \in Pair /\ "secret" \in Pair
  BY DEF Pair, Settings

\* Equal rows read alike.
LEMMA WholePairReads ==
    ASSUME table["key"] = table["secret"]
    PROVE  GetConfig("key", TRUE) = GetConfig("secret", TRUE)
  BY ConfigAssumption DEF GetConfig, Decrypts

LEMMA InitPair == Init => PairInv
<1> SUFFICES ASSUME Init PROVE PairInv
  OBVIOUS
<1>1. \A h \in Handlers : ~Open(h) /\ \A s \in Settings : post[h].body[s] = ""
  BY DEF Init, NoPost, Open
<1>2. table["key"] = table["secret"]
  BY PairSettings DEF Init
<1>3. engine.next = "key"
  BY DEF Init, Start
<1> QED
  BY <1>1, <1>2, <1>3, PairSettings
  DEF PairInv, BodiesAreWhole, CleanIsSaved, PairIsWhole, KeyIsCurrent, CredentialsBelongTogether

LEMMA PostPair ==
    ASSUME TypeInv, PairInv, NEW h \in Handlers, NEW body \in Bodies, Post(h, body)
    PROVE  PairInv'
<1>1. /\ post'[h].body = body /\ post'[h].left = Named(body)
      /\ \A g \in Handlers \ {h} : post'[g].body = post[g].body
  BY DEF Post, Open, TypeInv, TypeOK
<1>2. body["key"] # "" /\ body["secret"] # "" => body["key"] = body["secret"]
  BY DEF Bodies
<1>3. BodiesAreWhole'
  BY <1>1, <1>2 DEF PairInv, BodiesAreWhole
<1>4. \A g \in Handlers \ {h} : ~(Open(g)' /\ post'[g].clean)
  BY DEF Post, Open, TypeInv, TypeOK
<1>5. CleanIsSaved'
  BY <1>1, <1>4 DEF CleanIsSaved, Named
<1>6. (GetConfig("key", TRUE))' = GetConfig("key", TRUE)
  BY SameReads, PairSettings DEF Post
<1> QED
  BY <1>3, <1>5, <1>6 DEF Post, PairInv, PairIsWhole, KeyIsCurrent, CredentialsBelongTogether

LEMMA SavePair ==
    ASSUME TypeInv, SettledInv, PairInv,
           NEW h \in Handlers, NEW s \in Settings, NEW ok \in BOOLEAN, Save(h, s, ok)
    PROVE  PairInv'
<1>1. /\ post'[h].body = post[h].body /\ post'[h].left = post[h].left \ {s}
      /\ Open(h) /\ (post'[h].clean => post[h].clean /\ ok)
      /\ \A g \in Handlers \ {h} : post'[g] = post[g]
  BY DEF Save, Open, TypeInv, TypeOK
<1>2. BodiesAreWhole'
  BY <1>1 DEF PairInv, BodiesAreWhole
<1>3. /\ masterKey' = masterKey
      /\ \A t \in Settings :
           table'[t] = IF ok /\ t = s THEN [value |-> post[h].body[s], under |-> masterKey]
                       ELSE table[t]
  BY DEF Save, Saved, TypeInv, TypeOK
<1>4. CleanIsSaved'
  <2>1. SUFFICES ASSUME NEW g \in Handlers, Open(g)', post'[g].clean,
                        NEW t \in (Named(post[g].body) \ post[g].left)'
                 PROVE  table'[t] = [value |-> post[g].body[t], under |-> masterKey]'
    BY DEF CleanIsSaved, Open
  <2>2. Open(g) /\ post[g].clean
    BY <1>1, <2>1 DEF Open
  <2>3. g = h
    BY <1>1, <2>2 DEF SettledInv, CleanIsAlone
  <2>4. t \in Settings /\ t \in Named(post[h].body) /\ (t = s \/ t \notin post[h].left)
    BY <1>1, <2>3 DEF Named
  <2>5. ok /\ (t # s => table[t] = [value |-> post[h].body[t], under |-> masterKey])
    BY <1>1, <2>1, <2>2, <2>3, <2>4 DEF PairInv, CleanIsSaved
  <2> QED
    BY <1>1, <1>3, <2>3, <2>4, <2>5
<1>5. /\ halves' = (halves \/ s \in Pair)
      /\ engine'.next = engine.next /\ engine'.got = engine.got /\ engine'.blind = engine.blind
      /\ engine'.mixable = (engine.mixable \/ (s \in Pair /\ engine.next = "secret"))
  BY DEF Save, TypeInv, TypeOK
<1>6. s \notin Pair =>
        /\ table'["key"] = table["key"] /\ table'["secret"] = table["secret"]
        /\ (GetConfig("key", TRUE))' = GetConfig("key", TRUE)
  <2>1. ASSUME s \notin Pair PROVE table'["key"] = table["key"] /\ table'["secret"] = table["secret"]
    BY <1>3, <2>1, PairSettings
  <2> QED
    BY <1>3, <2>1 DEF GetConfig, Decrypts
<1>7. PairIsWhole' /\ KeyIsCurrent' /\ CredentialsBelongTogether'
  BY <1>5, <1>6 DEF PairInv, PairIsWhole, KeyIsCurrent, CredentialsBelongTogether
<1> QED
  BY <1>2, <1>4, <1>7 DEF PairInv

\* A clean request that named both parts leaves two rows from the same hand.
LEMMA AnswerPair ==
    ASSUME TypeInv, PairInv, NEW h \in Handlers, Answer(h)
    PROVE  PairInv'
<1> DEFINE body == post[h].body
<1>1. /\ Open(h) /\ post[h].left = {} /\ ~Open(h)' /\ post'[h] = NoPost
      /\ \A g \in Handlers \ {h} : post'[g] = post[g]
      /\ table' = table /\ masterKey' = masterKey /\ engine' = engine
      /\ halves' = (halves /\ ~(post[h].clean /\ body["key"] # "" /\ body["secret"] # ""))
  BY DEF Answer, NoPost, Open, TypeInv, TypeOK
<1>2. NoPost.body["key"] = ""
  BY PairSettings DEF NoPost
<1>3. BodiesAreWhole'
  BY <1>1, <1>2 DEF PairInv, BodiesAreWhole
<1>4. CleanIsSaved'
  BY <1>1 DEF PairInv, CleanIsSaved, Open, Named
<1>5. PairIsWhole'
  <2>1. CASE post[h].clean /\ body["key"] # "" /\ body["secret"] # ""
    <3>1. body["key"] = body["secret"]
      BY <2>1 DEF PairInv, BodiesAreWhole
    <3>2. {"key", "secret"} \subseteq Named(body) \ post[h].left
      BY <1>1, <2>1, PairSettings DEF Named
    <3>3. \A s \in Named(body) \ post[h].left :
            table[s] = [value |-> body[s], under |-> masterKey]
      BY <1>1, <2>1 DEF PairInv, CleanIsSaved
    <3> HIDE DEF body
    <3>4. table["key"] = table["secret"]
      BY <3>1, <3>2, <3>3
    <3> QED
      BY <1>1, <3>4 DEF PairIsWhole
  <2>2. CASE ~(post[h].clean /\ body["key"] # "" /\ body["secret"] # "")
    BY <1>1, <2>2 DEF PairInv, PairIsWhole
  <2> QED
    BY <2>1, <2>2
<1>6. (GetConfig("key", TRUE))' = GetConfig("key", TRUE)
  BY <1>1, SameReads, PairSettings
<1>7. KeyIsCurrent' /\ CredentialsBelongTogether'
  BY <1>1, <1>6 DEF PairInv, KeyIsCurrent, CredentialsBelongTogether
<1> QED
  BY <1>3, <1>4, <1>5, <1>7 DEF PairInv

LEMMA ReadPair ==
    ASSUME TypeInv, PairInv, NEW ok \in BOOLEAN, Read(ok)
    PROVE  PairInv'
<1> DEFINE s == engine.next
<1>1. (GetConfig("key", TRUE))' = GetConfig("key", TRUE)
  BY SameReads, PairSettings DEF Read
<1>2. BodiesAreWhole' /\ CleanIsSaved' /\ PairIsWhole'
  BY DEF Read, PairInv, BodiesAreWhole, CleanIsSaved, PairIsWhole, Open, Named
<1>3. s \in Settings
  BY DEF Read, TypeInv, TypeOK
<1>4. /\ engine'.got = [engine.got EXCEPT ![s] = GetConfig(s, ok)]
      /\ engine'.next = Following(s)
      /\ engine'.blind = (engine.blind \/ ~ok)
      /\ engine'.mixable = (engine.mixable \/ (s = "key" /\ halves))
      /\ halves' = halves
  BY DEF Read, TypeInv, TypeOK
<1>5. \A t \in Settings : engine'.got[t] = IF t = s THEN GetConfig(s, ok) ELSE engine.got[t]
  BY <1>4 DEF TypeInv, TypeOK, Payload
<1> HIDE DEF s
<1>6. CASE s = "key"
  <2>1. engine'.next = "secret"
    BY <1>4, <1>6 DEF Following
  <2>2. ASSUME ~engine'.blind, ~engine'.mixable
        PROVE  ~halves /\ engine'.got["key"] = GetConfig("key", TRUE)
    <3>1. ok = TRUE /\ ~halves
      BY <1>4, <1>6, <2>2
    <3> QED
      BY <1>5, <1>6, <3>1, PairSettings
  <2> QED
    BY <1>1, <1>2, <1>4, <2>1, <2>2 DEF PairInv, KeyIsCurrent, CredentialsBelongTogether
<1>7. CASE s = "secret"
  <2>1. engine'.next = "enabled"
    BY <1>4, <1>7 DEF Following
  <2>2. ASSUME ~engine'.blind, ~engine'.mixable PROVE engine'.got["key"] = engine'.got["secret"]
    <3>1. ok = TRUE /\ ~engine.blind /\ ~engine.mixable
      BY <1>4, <2>2
    <3>2. ~halves /\ engine.got["key"] = GetConfig("key", TRUE)
      BY <1>7, <3>1 DEF PairInv, KeyIsCurrent, s
    <3>3. GetConfig("key", TRUE) = GetConfig("secret", TRUE)
      BY <3>2, WholePairReads DEF PairInv, PairIsWhole
    <3> QED
      BY <1>5, <1>7, <3>1, <3>2, <3>3, PairSettings
  <2> QED
    BY <1>2, <2>1, <2>2 DEF PairInv, KeyIsCurrent, CredentialsBelongTogether
<1>8. CASE s = "enabled"
  <2>1. engine'.next = "done" /\ engine.next = "enabled"
    BY <1>4, <1>8 DEF Following, s
  <2>2. engine'.got["key"] = engine.got["key"] /\ engine'.got["secret"] = engine.got["secret"]
    BY <1>5, <1>8, PairSettings
  <2> QED
    BY <1>2, <1>4, <2>1, <2>2 DEF PairInv, KeyIsCurrent, CredentialsBelongTogether
<1> QED
  BY <1>3, <1>6, <1>7, <1>8 DEF Settings

LEMMA RestartPair ==
    ASSUME TypeInv, PairInv, Restart
    PROVE  PairInv'
<1>1. \A h \in Handlers : ~Open(h)' /\ post'[h] = NoPost
  BY DEF Restart, NoPost, Open
<1>2. NoPost.body["key"] = ""
  BY PairSettings DEF NoPost
<1>3. engine'.next = "key"
  BY DEF Restart, Start
<1> QED
  BY <1>1, <1>2, <1>3
  DEF Restart, PairInv, BodiesAreWhole, CleanIsSaved, PairIsWhole, KeyIsCurrent,
      CredentialsBelongTogether

LEMMA NextPair == TypeInv /\ SettledInv /\ PairInv /\ [Next]_vars => PairInv'
<1> SUFFICES ASSUME TypeInv, SettledInv, PairInv, [Next]_vars PROVE PairInv'
  OBVIOUS
<1>1. ASSUME NEW h \in Handlers, NEW body \in Bodies, Post(h, body) PROVE PairInv'
  BY <1>1, PostPair
<1>2. ASSUME NEW h \in Handlers, NEW s \in Settings, NEW ok \in BOOLEAN, Save(h, s, ok)
      PROVE  PairInv'
  BY <1>2, SavePair
<1>3. ASSUME NEW h \in Handlers, Answer(h) PROVE PairInv'
  BY <1>3, AnswerPair
<1>4. ASSUME NEW ok \in BOOLEAN, Read(ok) PROVE PairInv'
  BY <1>4, ReadPair
<1>5. CASE Restart
  BY <1>5, RestartPair
<1>6. CASE UNCHANGED vars
  <2>1. (GetConfig("key", TRUE))' = GetConfig("key", TRUE)
    BY <1>6, SameReads, PairSettings DEF vars
  <2> QED
    BY <1>6, <2>1
    DEF vars, PairInv, BodiesAreWhole, CleanIsSaved, PairIsWhole, KeyIsCurrent,
        CredentialsBelongTogether, Open, Named
<1> QED
  BY <1>1, <1>2, <1>3, <1>4, <1>5, <1>6 DEF Next

\* startTradingEngine never signs with the key of one account and the secret of another
\* because of what a finished request wrote, whatever requests overlap, fail or are cut
\* off before: the three reads see one request's pair unless they are told to doubt it.
THEOREM CredentialsBelongTogetherHolds == Spec => []CredentialsBelongTogether
<1>1. TypeInv /\ SettledInv /\ PairInv /\ [Next]_vars => TypeInv' /\ SettledInv' /\ PairInv'
  BY NextType, NextSettled, NextPair
<1>2. Init => TypeInv /\ SettledInv /\ PairInv
  BY InitType, InitSettled, InitPair
<1>3. PairInv => CredentialsBelongTogether
  BY DEF PairInv
<1> QED
  BY <1>1, <1>2, <1>3, PTL DEF Spec
=============================================================================
