--------------------------- MODULE UpgradeProofs ----------------------------
(***************************************************************************)
(* Proofs about the chain parameters as the node serves them, for any      *)
(* number of proposals, upgrades, fields, accounts and heights, and for    *)
(* every order in which a tick meets the proposals that passed.            *)
(***************************************************************************)
EXTENDS UpgradeService, SumTheorems, FiniteSetTheorems

-----------------------------------------------------------------------------
(* The loop of a tick *)

\* s lists the states of the loop that submits the proposals of order, up to n.
IsRun(s, order, n) ==
  /\ DOMAIN s = 0..n
  /\ s[0] = [registry |-> registry, executed |-> {}]
  /\ \A i \in 1..n : s[i] = Execute(s[i - 1], order[i])

\* There is such a list.
LEMMA RunExists ==
  ASSUME NEW m \in Nat, NEW order
  PROVE  \E s : IsRun(s, order, m)
<1> DEFINE A == {n \in Nat : \E s : IsRun(s, order, n)}
           start == [registry |-> registry, executed |-> {}]
<1>1. 0 \in A
  <2>1. IsRun([i \in 0..0 |-> start], order, 0)
    BY DEF IsRun
  <2> QED BY <2>1
<1>2. ASSUME NEW n \in Nat, n \in A
      PROVE  n + 1 \in A
  <2>1. PICK s : IsRun(s, order, n)
    BY <1>2
  <2> DEFINE q == [j \in 0..(n + 1) |-> IF j <= n THEN s[j] ELSE Execute(s[n], order[n + 1])]
  <2>2. DOMAIN q = 0..(n + 1) /\ q[0] = s[0] /\ q[n + 1] = Execute(s[n], order[n + 1])
    OBVIOUS
  <2>3. \A j \in 0..n : q[j] = s[j]
    OBVIOUS
  <2> HIDE DEF q
  <2>4. ASSUME NEW j \in 1..(n + 1)
        PROVE  q[j] = Execute(q[j - 1], order[j])
    <3>1. CASE j \in 1..n
      <4>1. q[j] = s[j] /\ q[j - 1] = s[j - 1]
        BY <2>3, <3>1
      <4>2. s[j] = Execute(s[j - 1], order[j])
        BY <2>1, <3>1 DEF IsRun
      <4> QED BY <4>1, <4>2, Zenon
    <3>2. CASE j = n + 1
      <4>1. q[j - 1] = s[n]
        BY <2>3, <3>2
      <4> QED BY <2>2, <3>2, <4>1, Zenon
    <3> QED BY <3>1, <3>2
  <2>5. IsRun(q, order, n + 1)
    BY <2>1, <2>2, <2>4, Zenon DEF IsRun
  <2> QED BY <2>5
<1>3. Nat \subseteq A
  <2> HIDE DEF A
  <2> QED BY <1>1, <1>2, SetInduction, Zenon
<1> QED BY <1>3

\* The loop ends in the last state of such a list.
LEMMA ExecuteAllRuns ==
  ASSUME NEW order, Len(order) \in Nat
  PROVE  \E s : IsRun(s, order, Len(order)) /\ ExecuteAll(order) = s[Len(order)]
<1> DEFINE n == Len(order)
           start == [registry |-> registry, executed |-> {}]
           state[i \in 0..n] == IF i = 0 THEN start ELSE Execute(state[i - 1], order[i])
<1>1. \E g : g = [i \in 0..n |-> IF i = 0 THEN start ELSE Execute(g[i - 1], order[i])]
  <2>1. PICK s : IsRun(s, order, n)
    BY RunExists, Zenon
  <2> DEFINE h == [i \in 0..n |-> IF i = 0 THEN start ELSE Execute(s[i - 1], order[i])]
  <2>2. \A i \in 0..n : i = 0 \/ i \in 1..n
    OBVIOUS
  <2> HIDE DEF start
  <2>3. \A i \in 0..n : h[i] = s[i]
    BY <2>1, <2>2, Zenon DEF IsRun, start
  <2>4. \A i \in 0..n : i # 0 => i - 1 \in 0..n
    OBVIOUS
  <2>5. \A i \in 0..n : i # 0 => h[i] = Execute(h[i - 1], order[i])
    BY <2>3, <2>4, Zenon
  <2>6. h = [i \in 0..n |-> IF i = 0 THEN start ELSE Execute(h[i - 1], order[i])]
    BY <2>5, Zenon
  <2> QED BY <2>6, Zenon
<1>2. state = [i \in 0..n |-> IF i = 0 THEN start ELSE Execute(state[i - 1], order[i])]
  BY <1>1, Zenon
<1>3. ExecuteAll(order) = state[n]
  BY DEF ExecuteAll
<1> HIDE DEF state
<1>4. IsRun(state, order, n)
  <2>1. DOMAIN state = 0..n
    BY <1>2, Zenon
  <2>2. 0 \in 0..n /\ \A i \in 1..n : i \in 0..n /\ i # 0
    OBVIOUS
  <2>3. state[0] = start
    BY <1>2, <2>2, Zenon
  <2>4. \A i \in 1..n : state[i] = Execute(state[i - 1], order[i])
    BY <1>2, <2>2, Zenon
  <2> QED BY <2>1, <2>3, <2>4, Zenon DEF IsRun
<1> QED BY <1>3, <1>4, Zenon
-----------------------------------------------------------------------------
(* The parameters of a height *)

\* p lists the parameters of the heights up to n that the patches a lead to.
IsSchedule(p, a, n) ==
  /\ DOMAIN p = 0..n
  /\ p[0] = apply_patch(genesis_parameters, a[0])
  /\ \A i \in 1..n : p[i] = apply_patch(p[i - 1], a[i])

\* There is such a list.
LEMMA ScheduleExists ==
  ASSUME NEW m \in Nat, NEW a
  PROVE  \E p : IsSchedule(p, a, m)
<1> DEFINE A == {n \in Nat : \E p : IsSchedule(p, a, n)}
<1>1. 0 \in A
  <2>1. IsSchedule([i \in 0..0 |-> apply_patch(genesis_parameters, a[0])], a, 0)
    BY DEF IsSchedule
  <2> QED BY <2>1
<1>2. ASSUME NEW n \in Nat, n \in A
      PROVE  n + 1 \in A
  <2>1. PICK p : IsSchedule(p, a, n)
    BY <1>2
  <2> DEFINE q == [j \in 0..(n + 1) |-> IF j <= n THEN p[j] ELSE apply_patch(p[n], a[n + 1])]
  <2>2. DOMAIN q = 0..(n + 1) /\ q[0] = p[0] /\ q[n + 1] = apply_patch(p[n], a[n + 1])
    OBVIOUS
  <2>3. \A j \in 0..n : q[j] = p[j]
    OBVIOUS
  <2> HIDE DEF q
  <2>4. ASSUME NEW j \in 1..(n + 1)
        PROVE  q[j] = apply_patch(q[j - 1], a[j])
    <3>1. CASE j \in 1..n
      <4>1. q[j] = p[j] /\ q[j - 1] = p[j - 1]
        BY <2>3, <3>1
      <4>2. p[j] = apply_patch(p[j - 1], a[j])
        BY <2>1, <3>1 DEF IsSchedule
      <4> QED BY <4>1, <4>2, Zenon
    <3>2. CASE j = n + 1
      <4>1. q[j - 1] = p[n]
        BY <2>3, <3>2
      <4> QED BY <2>2, <3>2, <4>1, Zenon
    <3> QED BY <3>1, <3>2
  <2>5. IsSchedule(q, a, n + 1)
    BY <2>1, <2>2, <2>4, Zenon DEF IsSchedule
  <2> QED BY <2>5
<1>3. Nat \subseteq A
  <2> HIDE DEF A
  <2> QED BY <1>1, <1>2, SetInduction, Zenon
<1> QED BY <1>3

\* ApplyUpTo computes the last of such a list.
LEMMA ApplyUpToIs ==
  ASSUME NEW n \in Nat, NEW a
  PROVE  \E p : IsSchedule(p, a, n) /\ ApplyUpTo(a, n) = p[n]
<1> DEFINE params[h \in 0..n] ==
             apply_patch(IF h = 0 THEN genesis_parameters ELSE params[h - 1], a[h])
<1>1. \E g : g = [h \in 0..n |-> apply_patch(IF h = 0 THEN genesis_parameters ELSE g[h - 1], a[h])]
  <2>1. PICK p : IsSchedule(p, a, n)
    BY ScheduleExists, Zenon
  <2> DEFINE g == [h \in 0..n |-> p[h]]
  <2>2. \A h \in 0..n : h = 0 \/ (h \in 1..n /\ h - 1 \in 0..n)
    OBVIOUS
  <2>3. \A h \in 0..n : g[h] = apply_patch(IF h = 0 THEN genesis_parameters ELSE g[h - 1], a[h])
    BY <2>1, <2>2, Zenon DEF IsSchedule
  <2>4. g = [h \in 0..n |-> apply_patch(IF h = 0 THEN genesis_parameters ELSE g[h - 1], a[h])]
    BY <2>3, Zenon
  <2> QED BY <2>4, Zenon
<1>2. params = [h \in 0..n |-> apply_patch(IF h = 0 THEN genesis_parameters ELSE params[h - 1], a[h])]
  BY <1>1, Zenon
<1>3. ApplyUpTo(a, n) = params[n]
  BY DEF ApplyUpTo
<1> HIDE DEF params
<1>4. IsSchedule(params, a, n)
  <2>1. DOMAIN params = 0..n
    BY <1>2, Zenon
  <2>2. 0 \in 0..n /\ \A i \in 1..n : i \in 0..n /\ i # 0
    OBVIOUS
  <2>3. params[0] = apply_patch(genesis_parameters, a[0])
    BY <1>2, <2>2, Zenon
  <2>4. \A i \in 1..n : params[i] = apply_patch(params[i - 1], a[i])
    BY <1>2, <2>2, Zenon
  <2> QED BY <2>1, <2>3, <2>4, Zenon DEF IsSchedule
<1> QED BY <1>3, <1>4, Zenon

\* v is what field f has at height h: the value of the last patch up to h that sets it.
SetBy(v, a, h, f) ==
  \/ v = 0 /\ \A i \in 0..h : f \notin DOMAIN a[i]
  \/ \E i \in 0..h : /\ f \in DOMAIN a[i] /\ v = a[i][f]
                    /\ \A j \in 0..h : f \in DOMAIN a[j] => j <= i

\* The parameters of every height have every field, as the last patch set it.
LEMMA ScheduleIs ==
  ASSUME NEW n \in Nat, NEW a, NEW p, IsSchedule(p, a, n),
         \A i \in 0..n : DOMAIN a[i] \subseteq Fields
  PROVE  p[n] = [f \in Fields |-> p[n][f]] /\ \A f \in Fields : SetBy(p[n][f], a, n, f)
<1> DEFINE Good(i) == p[i] = [f \in Fields |-> p[i][f]] /\ \A f \in Fields : SetBy(p[i][f], a, i, f)
           A == {i \in Nat : i <= n => Good(i)}
<1>1. 0 \in A
  <2>1. p[0] = [f \in DOMAIN a[0] \cup Fields |-> IF f \in DOMAIN a[0] THEN a[0][f] ELSE genesis_parameters[f]]
    BY DEF IsSchedule, apply_patch, Override, genesis_parameters
  <2>2. p[0] = [f \in Fields |-> p[0][f]]
    BY <2>1
  <2>3. ASSUME NEW f \in Fields PROVE SetBy(p[0][f], a, 0, f)
    <3>1. CASE f \in DOMAIN a[0]
      BY <2>1, <3>1 DEF SetBy
    <3>2. CASE f \notin DOMAIN a[0]
      BY <2>1, <3>2 DEF SetBy, genesis_parameters
    <3> QED BY <3>1, <3>2
  <2> QED BY <2>2, <2>3
<1>2. ASSUME NEW i \in Nat, i \in A PROVE i + 1 \in A
  <2> SUFFICES ASSUME i + 1 <= n PROVE Good(i + 1)
    OBVIOUS
  <2>1. Good(i) /\ i + 1 \in 1..n /\ i + 1 \in 0..n /\ (i + 1) - 1 = i
    BY <1>2
  <2> HIDE DEF A
  <2>2. p[i + 1] = [f \in DOMAIN a[i + 1] \cup Fields |->
                      IF f \in DOMAIN a[i + 1] THEN a[i + 1][f] ELSE p[i][f]]
    <3>1. p[i + 1] = apply_patch(p[i], a[i + 1])
      BY <2>1 DEF IsSchedule
    <3> QED BY <2>1, <3>1 DEF apply_patch, Override
  <2>3. p[i + 1] = [f \in Fields |-> p[i + 1][f]]
    BY <2>1, <2>2
  <2>4. ASSUME NEW f \in Fields PROVE SetBy(p[i + 1][f], a, i + 1, f)
    <3>1. CASE f \in DOMAIN a[i + 1]
      <4>1. p[i + 1][f] = a[i + 1][f] /\ i + 1 \in 0..(i + 1)
        BY <2>2, <3>1
      <4> QED BY <3>1, <4>1 DEF SetBy
    <3>2. CASE f \notin DOMAIN a[i + 1]
      <4>1. p[i + 1][f] = p[i][f] /\ SetBy(p[i][f], a, i, f)
        BY <2>1, <2>2, <3>2
      <4>2. \A j \in 0..(i + 1) : j \in 0..i \/ j = i + 1
        OBVIOUS
      <4> QED BY <3>2, <4>1, <4>2 DEF SetBy
    <3> QED BY <3>1, <3>2
  <2> QED BY <2>3, <2>4
<1>3. Nat \subseteq A
  <2> HIDE DEF A
  <2> QED BY <1>1, <1>2, SetInduction, Zenon
<1> QED BY <1>3

\* What effective_parameters_at returns, in terms of the registry's patches.
LEMMA EffectiveParameters ==
  ASSUME NEW reg, NEW h \in Nat, \A i \in 0..h : DOMAIN reg.activations[i] \subseteq Fields
  PROVE  /\ effective_parameters_at(reg, h) = [f \in Fields |-> effective_parameters_at(reg, h)[f]]
         /\ \A f \in Fields : SetBy(effective_parameters_at(reg, h)[f], reg.activations, h, f)
<1> DEFINE a == [i \in 0..h |-> reg.activations[i]]
<1>1. PICK p : IsSchedule(p, a, h) /\ ApplyUpTo(a, h) = p[h]
  BY ApplyUpToIs, Zenon
<1>2. effective_parameters_at(reg, h) = p[h]
  BY <1>1 DEF effective_parameters_at
<1>3. \A i \in 0..h : a[i] = reg.activations[i]
  OBVIOUS
<1> HIDE DEF a
<1>4. \A i \in 0..h : DOMAIN a[i] \subseteq Fields
  BY <1>3
<1>5. p[h] = [f \in Fields |-> p[h][f]] /\ \A f \in Fields : SetBy(p[h][f], a, h, f)
  BY <1>1, <1>4, ScheduleIs
<1>6. \A f \in Fields : SetBy(p[h][f], reg.activations, h, f)
  BY <1>3, <1>5 DEF SetBy
<1> QED BY <1>2, <1>5, <1>6, Zenon

-----------------------------------------------------------------------------
(* What an upgrade does to the registry *)

\* A patch merged into another is a patch.
LEMMA MergedPatch ==
  ASSUME NEW p \in Patch, NEW q \in Patch
  PROVE  /\ merge_patches(p, q) \in Patch
         /\ DOMAIN merge_patches(p, q) = DOMAIN p \cup DOMAIN q
         /\ \A f \in DOMAIN q : merge_patches(p, q)[f] = q[f]
         /\ \A f \in DOMAIN p \ DOMAIN q : merge_patches(p, q)[f] = p[f]
<1>1. PICK s \in SUBSET Fields : p \in [s -> Values]
  BY DEF Patch
<1>2. PICK t \in SUBSET Fields : q \in [t -> Values]
  BY DEF Patch
<1>3. merge_patches(p, q) = [f \in t \cup s |-> IF f \in t THEN q[f] ELSE p[f]]
  BY <1>1, <1>2 DEF merge_patches, Override
<1>4. merge_patches(p, q) \in [t \cup s -> Values] /\ t \cup s \in SUBSET Fields
  BY <1>1, <1>2, <1>3
<1> QED BY <1>1, <1>2, <1>3, <1>4 DEF Patch

\* A patch sets fields of the parameters.
LEMMA PatchSetsFields == \A p \in Patch : DOMAIN p \subseteq Fields
BY DEF Patch

\* An upgrade is merged at its height and appended to the history.
IsSubmitted(r, reg, patch, a) ==
  /\ r \in Registry /\ r.current_height = reg.current_height /\ r.roles = reg.roles
  /\ r.activations = [reg.activations EXCEPT ![a] = merge_patches(reg.activations[a], patch)]
  /\ r.upgrade_history = Append(reg.upgrade_history, [activation |-> a, patch |-> patch])

\* That is what submit_parameter_upgrade does.
LEMMA Submitted ==
  ASSUME NEW reg \in Registry, NEW patch \in Patch, NEW a \in Heights, NEW r,
         r = submit_parameter_upgrade(reg, patch, a)
  PROVE  IsSubmitted(r, reg, patch, a)
<1> DEFINE acts == [reg.activations EXCEPT ![a] = merge_patches(reg.activations[a], patch)]
           hist == Append(reg.upgrade_history, [activation |-> a, patch |-> patch])
<1>1. reg.activations \in [Heights -> Patch] /\ reg.upgrade_history \in Seq(Upgrade)
  BY DEF Registry
<1>2. acts \in [Heights -> Patch]
  BY <1>1, MergedPatch, Zenon
<1>3. [activation |-> a, patch |-> patch] \in Upgrade
  BY DEF Upgrade
<1>4. hist \in Seq(Upgrade)
  BY <1>1, <1>3
<1>5. r = [reg EXCEPT !.activations = acts, !.upgrade_history = hist]
  BY DEF submit_parameter_upgrade, Registry
<1> HIDE DEF acts, hist
<1>6. r \in Registry /\ r.current_height = reg.current_height /\ r.roles = reg.roles
      /\ r.activations = acts /\ r.upgrade_history = hist
  BY <1>2, <1>4, <1>5, Zenon DEF Registry
<1> QED BY <1>6, Zenon DEF IsSubmitted, acts, hist

\* The upgrades in the history that set field f at height a.
Setters(reg, a, f) ==
  {i \in DOMAIN reg.upgrade_history :
     reg.upgrade_history[i].activation = a /\ f \in DOMAIN reg.upgrade_history[i].patch}

\* A field is set at a height when an upgrade of the history sets it there, to what
\* the last of them says.
HistoryMatches(reg) ==
  \A a \in Heights, f \in Fields :
    \/ Setters(reg, a, f) = {} /\ f \notin DOMAIN reg.activations[a]
    \/ /\ f \in DOMAIN reg.activations[a]
       /\ \E i \in Setters(reg, a, f) :
            /\ \A j \in Setters(reg, a, f) : j <= i
            /\ reg.activations[a][f] = reg.upgrade_history[i].patch[f]

\* An upgrade is the last that sets its fields at its height, and sets no others.
LEMMA SubmittedMatches ==
  ASSUME NEW reg \in Registry, NEW patch \in Patch, NEW a \in Heights, NEW r,
         r = submit_parameter_upgrade(reg, patch, a), HistoryMatches(reg)
  PROVE  HistoryMatches(r)
<1> DEFINE H == reg.upgrade_history
           H2 == r.upgrade_history
           n == Len(H)
<1>1. /\ r.activations = [reg.activations EXCEPT ![a] = merge_patches(reg.activations[a], patch)]
      /\ H2 = Append(H, [activation |-> a, patch |-> patch])
  <2>1. IsSubmitted(r, reg, patch, a)
    BY Submitted, Zenon
  <2> QED BY <2>1 DEF IsSubmitted
<1>2. H \in Seq(Upgrade) /\ reg.activations \in [Heights -> Patch]
  BY DEF Registry
<1>3. /\ n \in Nat /\ DOMAIN H = 1..n /\ DOMAIN H2 = 1..(n + 1)
      /\ \A i \in 1..n : H2[i] = H[i]
      /\ H2[n + 1] = [activation |-> a, patch |-> patch]
  <2>1. [activation |-> a, patch |-> patch] \in Upgrade
    BY DEF Upgrade
  <2> QED BY <1>1, <1>2, <2>1
<1> HIDE DEF H, H2, n
<1> SUFFICES ASSUME NEW b \in Heights, NEW f \in Fields
             PROVE  \/ Setters(r, b, f) = {} /\ f \notin DOMAIN r.activations[b]
                    \/ /\ f \in DOMAIN r.activations[b]
                       /\ \E i \in Setters(r, b, f) :
                            /\ \A j \in Setters(r, b, f) : j <= i
                            /\ r.activations[b][f] = H2[i].patch[f]
  BY DEF HistoryMatches, H2
<1>4. Setters(reg, b, f) = {i \in 1..n : H[i].activation = b /\ f \in DOMAIN H[i].patch}
      /\ Setters(r, b, f) = {i \in 1..(n + 1) : H2[i].activation = b /\ f \in DOMAIN H2[i].patch}
  BY <1>3 DEF Setters, H, H2
<1>5. \/ Setters(reg, b, f) = {} /\ f \notin DOMAIN reg.activations[b]
      \/ /\ f \in DOMAIN reg.activations[b]
         /\ \E i \in Setters(reg, b, f) :
              /\ \A j \in Setters(reg, b, f) : j <= i
              /\ reg.activations[b][f] = H[i].patch[f]
  BY DEF HistoryMatches, H
<1>6. CASE b = a /\ f \in DOMAIN patch
  <2>1. n + 1 \in Setters(r, b, f) /\ \A j \in Setters(r, b, f) : j <= n + 1
    BY <1>3, <1>4, <1>6
  <2>2. r.activations[b] = merge_patches(reg.activations[a], patch) /\ reg.activations[a] \in Patch
    BY <1>1, <1>2, <1>6
  <2>3. f \in DOMAIN r.activations[b] /\ r.activations[b][f] = patch[f]
    <3> DEFINE old == reg.activations[a]
               new == r.activations[b]
    <3>1. old \in Patch /\ new = merge_patches(old, patch) /\ f \in DOMAIN patch
      BY <1>6, <2>2, Zenon
    <3> HIDE DEF old, new
    <3>2. DOMAIN merge_patches(old, patch) = DOMAIN old \cup DOMAIN patch
          /\ merge_patches(old, patch)[f] = patch[f]
      BY <3>1, MergedPatch, Zenon
    <3>3. f \in DOMAIN new /\ new[f] = patch[f]
      BY <3>1, <3>2
    <3> QED BY <3>3, Zenon DEF new
  <2>4. H2[n + 1].patch[f] = patch[f]
    BY <1>3
  <2> QED BY <2>1, <2>3, <2>4
<1>7. CASE ~(b = a /\ f \in DOMAIN patch)
  <2>1. Setters(r, b, f) = Setters(reg, b, f)
    <3>1. n + 1 \notin Setters(r, b, f)
      BY <1>3, <1>4, <1>7
    <3>2. \A i \in 1..(n + 1) : i \in 1..n \/ i = n + 1
      BY <1>3
    <3>3. \A i \in 1..n : i \in 1..(n + 1)
      BY <1>3
    <3> QED BY <1>3, <1>4, <3>1, <3>2, <3>3
  <2>2. /\ f \in DOMAIN r.activations[b] <=> f \in DOMAIN reg.activations[b]
        /\ f \in DOMAIN reg.activations[b] => r.activations[b][f] = reg.activations[b][f]
    <3>1. CASE b # a
      BY <1>1, <1>2, <3>1
    <3>2. CASE b = a
      <4>1. r.activations[b] = merge_patches(reg.activations[b], patch) /\ reg.activations[b] \in Patch
        BY <1>1, <1>2, <3>2
      <4>2. /\ DOMAIN merge_patches(reg.activations[b], patch) = DOMAIN reg.activations[b] \cup DOMAIN patch
            /\ \A g \in DOMAIN reg.activations[b] \ DOMAIN patch :
                 merge_patches(reg.activations[b], patch)[g] = reg.activations[b][g]
        BY <4>1, MergedPatch, Zenon
      <4>3. f \notin DOMAIN patch
        BY <1>7, <3>2
      <4> QED BY <4>1, <4>2, <4>3, Zenon
    <3> QED BY <3>1, <3>2
  <2>3. \A i \in Setters(reg, b, f) : H2[i] = H[i]
    BY <1>3, <1>4
  <2> QED BY <1>5, <2>1, <2>2, <2>3, Zenon
<1> QED BY <1>6, <1>7, Zenon

\* The entries of a history.
LEMMA HistoryEntries ==
  ASSUME NEW reg \in Registry
  PROVE  \A i \in DOMAIN reg.upgrade_history :
           /\ i \in Nat /\ reg.upgrade_history[i].patch \in Patch
           /\ reg.upgrade_history[i].activation \in Heights
           /\ reg.upgrade_history[i].activation \in Nat
<1>1. reg.upgrade_history \in Seq(Upgrade)
  BY DEF Registry
<1>2. \A i \in DOMAIN reg.upgrade_history : i \in Nat /\ reg.upgrade_history[i] \in Upgrade
  BY <1>1
<1>3. \A i \in DOMAIN reg.upgrade_history :
        reg.upgrade_history[i].activation \in Heights /\ reg.upgrade_history[i].patch \in Patch
  BY <1>2 DEF Upgrade
<1> QED BY <1>2, <1>3, ChainParamsAssumption DEF Heights

\* What the history announces for a height is in force there: leaving out upgrades
\* that are due later makes no difference.
LEMMA AnnouncedIsInForce ==
  ASSUME NEW reg \in Registry, HistoryMatches(reg), NEW h \in Heights, NEW f \in Fields,
         NEW places, places \subseteq DOMAIN reg.upgrade_history,
         \A i \in DOMAIN reg.upgrade_history :
           reg.upgrade_history[i].activation <= h => i \in places
  PROVE  effective_parameters_at(reg, h)[f] = Announced(reg.upgrade_history, places, h, f)
<1> DEFINE H == reg.upgrade_history
           v == effective_parameters_at(reg, h)[f]
           setters == {i \in places : H[i].activation <= h /\ f \in DOMAIN H[i].patch}
           Later(i, j) == \/ H[i].activation > H[j].activation
                          \/ H[i].activation = H[j].activation /\ i >= j
           last == CHOOSE i \in setters : \A j \in setters : Later(i, j)
<1>1. Announced(H, places, h, f) = IF setters = {} THEN 0 ELSE H[last].patch[f]
  BY DEF Announced
<1>2. /\ h \in Nat /\ 0..h \subseteq Heights /\ Heights \subseteq Nat
      /\ \A b \in Heights : b <= h => b \in 0..h
  BY ChainParamsAssumption DEF Heights
<1>3. \A i \in DOMAIN H : H[i].activation \in Heights /\ i \in Nat
  BY HistoryEntries
<1>4. \A i \in setters : i \in Setters(reg, H[i].activation, f) /\ H[i].activation \in 0..h
  BY <1>2, <1>3 DEF Setters
<1>5. \A b \in 0..h : \A i \in Setters(reg, b, f) : i \in setters /\ H[i].activation = b
  BY <1>2 DEF Setters
<1>6. SetBy(v, reg.activations, h, f)
  <2>1. \A i \in 0..h : DOMAIN reg.activations[i] \subseteq Fields
    BY <1>2, PatchSetsFields, Zenon DEF Registry
  <2> QED BY <1>2, <2>1, EffectiveParameters, Zenon
<1>7. \A b \in 0..h :
        \/ Setters(reg, b, f) = {} /\ f \notin DOMAIN reg.activations[b]
        \/ /\ f \in DOMAIN reg.activations[b]
           /\ \E i \in Setters(reg, b, f) :
                /\ \A j \in Setters(reg, b, f) : j <= i
                /\ reg.activations[b][f] = H[i].patch[f]
  BY <1>2 DEF HistoryMatches
<1> HIDE DEF v, setters
<1>8. CASE v = 0 /\ \A i \in 0..h : f \notin DOMAIN reg.activations[i]
  <2>1. setters = {}
    BY <1>4, <1>7, <1>8
  <2> QED BY <1>1, <1>8, <2>1, Zenon DEF v
<1>9. ASSUME NEW b \in 0..h, f \in DOMAIN reg.activations[b], v = reg.activations[b][f],
             \A j \in 0..h : f \in DOMAIN reg.activations[j] => j <= b
      PROVE  v = Announced(H, places, h, f)
  <2>1. PICK i \in Setters(reg, b, f) :
          (\A j \in Setters(reg, b, f) : j <= i) /\ reg.activations[b][f] = H[i].patch[f]
    BY <1>7, <1>9, Zenon
  <2>2. i \in setters /\ H[i].activation = b /\ i \in Nat /\ b \in Nat
    BY <1>2, <1>3, <1>5, <2>1, Zenon DEF setters
  <2>3. ASSUME NEW j \in setters PROVE Later(i, j)
    <3>1. j \in Setters(reg, H[j].activation, f) /\ H[j].activation \in 0..h /\ j \in Nat
      BY <1>3, <1>4, Zenon DEF setters
    <3>2. H[j].activation <= b /\ H[j].activation \in Nat
      BY <1>7, <1>9, <3>1
    <3>3. H[j].activation = b => j <= i
      BY <2>1, <3>1
    <3> QED BY <2>2, <3>1, <3>2, <3>3
  <2>4. last \in setters /\ \A j \in setters : Later(last, j)
    <3>1. \E k \in setters : \A j \in setters : Later(k, j)
      BY <2>2, <2>3, Zenon
    <3> HIDE DEF Later
    <3> QED BY <3>1, Zenon
  <2>5. last = i
    <3>1. Later(last, i) /\ Later(i, last)
      BY <2>2, <2>3, <2>4, Zenon
    <3>2. last \in Nat /\ H[last].activation \in Nat
      BY <1>2, <1>3, <2>4, Zenon DEF setters
    <3> HIDE DEF last
    <3> QED BY <2>2, <3>1, <3>2
  <2> QED BY <1>1, <1>9, <2>1, <2>2, <2>5, Zenon
<1> QED BY <1>6, <1>8, <1>9 DEF SetBy, v

\* So the history explains the parameters, and the upgrades it calls pending have no
\* part in the active ones.
LEMMA MatchingHistoryExplains ==
  ASSUME registry \in Registry, HistoryMatches(registry)
  PROVE  HistoryExplainsParameters
<1> DEFINE H == registry.upgrade_history
           live == DOMAIN H \ pending_upgrades(registry)
<1>1. \A h \in Heights, f \in Fields :
        effective_parameters_at(registry, h)[f] = Announced(H, DOMAIN H, h, f)
  BY AnnouncedIsInForce
<1>2. registry.current_height \in Heights
  BY DEF Registry
<1>3. live \subseteq DOMAIN H
      /\ \A i \in DOMAIN H : H[i].activation <= registry.current_height => i \in live
  <2>1. registry.current_height \in Nat
    BY <1>2, ChainParamsAssumption DEF Heights
  <2>2. \A i \in DOMAIN H : H[i].activation \in Nat
    BY HistoryEntries
  <2> QED BY <2>1, <2>2 DEF pending_upgrades
<1>4. \A f \in Fields :
        effective_parameters_at(registry, registry.current_height)[f]
          = Announced(H, live, registry.current_height, f)
  BY <1>2, <1>3, AnnouncedIsInForce
<1> QED BY <1>1, <1>4 DEF HistoryExplainsParameters, active_parameters

-----------------------------------------------------------------------------
(* What a tick does *)

\* No upgrade is accepted for h: it is below the tip and the delay, and not the last.
Fixed(h) == h < registry.current_height + MinDelay /\ h < MaxHeight

\* reg is the registry after n more upgrades: the roles and the tip are the same, and
\* so is every patch of a height that is fixed.
Extends(reg, n) ==
  /\ reg \in Registry /\ HistoryMatches(reg)
  /\ reg.current_height = registry.current_height /\ reg.roles = registry.roles
  /\ Len(reg.upgrade_history) = Len(registry.upgrade_history) + n
  /\ \A h \in Heights : Fixed(h) => reg.activations[h] = registry.activations[h]

\* The registry is itself after no more upgrades.
LEMMA ExtendsItself ==
  ASSUME registry \in Registry, HistoryMatches(registry)
  PROVE  Extends(registry, 0)
<1>1. Len(registry.upgrade_history) \in Nat
  BY DEF Registry
<1> QED BY <1>1 DEF Extends

\* An upgrade that is accepted is due at no height that is fixed.
LEMMA AcceptedExtends ==
  ASSUME NEW reg, NEW n \in Nat, registry \in Registry, Extends(reg, n),
         NEW patch \in Patch, NEW a \in Heights, NEW proposer, NEW voters,
         Accepts(reg, patch, a, proposer, voters)
  PROVE  Extends(submit_parameter_upgrade(reg, patch, a), n + 1)
<1> DEFINE r == submit_parameter_upgrade(reg, patch, a)
           tip == registry.current_height
<1>1. reg \in Registry /\ HistoryMatches(reg)
  BY Zenon DEF Extends
<1>2. /\ r \in Registry /\ r.current_height = reg.current_height /\ r.roles = reg.roles
      /\ r.activations = [reg.activations EXCEPT ![a] = merge_patches(reg.activations[a], patch)]
      /\ r.upgrade_history = Append(reg.upgrade_history, [activation |-> a, patch |-> patch])
  <2>1. IsSubmitted(r, reg, patch, a)
    BY <1>1, Submitted, Zenon
  <2> QED BY <2>1 DEF IsSubmitted
<1>3. HistoryMatches(r)
  BY <1>1, SubmittedMatches
<1> HIDE DEF r
<1>4. Len(r.upgrade_history) = Len(registry.upgrade_history) + (n + 1)
  <2>1. reg.upgrade_history \in Seq(Upgrade) /\ Len(registry.upgrade_history) \in Nat
    BY <1>1 DEF Registry
  <2>2. Len(r.upgrade_history) = Len(reg.upgrade_history) + 1
    BY <1>2, <2>1
  <2>3. Len(reg.upgrade_history) = Len(registry.upgrade_history) + n
    BY DEF Extends
  <2>4. \A l \in Nat : (l + n) + 1 = l + (n + 1)
    OBVIOUS
  <2> QED BY <2>1, <2>2, <2>3, <2>4, Zenon
<1>5. ASSUME NEW h \in Heights, Fixed(h)
      PROVE  r.activations[h] = registry.activations[h]
  <2>1. reg.current_height = tip /\ reg.activations[h] = registry.activations[h]
    BY <1>5 DEF Extends
  <2>2. tip \in Nat /\ a \in Nat /\ h \in Nat /\ MaxHeight \in Nat /\ MinDelay \in Nat
    <3>1. tip \in Heights
      BY DEF Registry
    <3>2. MaxHeight \in Nat /\ MinDelay \in Nat
      BY ChainParamsAssumption
    <3> QED BY <3>1, <3>2 DEF Heights
  <2>3. a >= min_activation_height(reg)
    BY DEF Accepts
  <2>4. h < tip + MinDelay /\ h < MaxHeight
    BY <1>5 DEF Fixed
  <2>5. a # h
    BY <2>1, <2>2, <2>3, <2>4 DEF min_activation_height
  <2>6. reg.activations \in [Heights -> Patch]
    BY <1>1, Zenon DEF Registry
  <2> QED BY <1>2, <2>1, <2>5, <2>6, Zenon
<1>6. r.current_height = tip /\ r.roles = registry.roles
  BY <1>2 DEF Extends
<1> QED BY <1>2, <1>3, <1>4, <1>5, <1>6, Zenon DEF Extends, r

\* What holds in the loop of a tick when the proposals in done have been met.
LoopInv(st, done) ==
  /\ IsFiniteSet(st.executed) /\ st.executed \subseteq done
  /\ Extends(st.registry, Cardinality(st.executed))

\* One more proposal is executed, or is refused and changes nothing.
LEMMA ExecuteStep ==
  ASSUME NEW st, NEW done, LoopInv(st, done), NEW p \in DOMAIN proposals, p \notin done,
         registry \in Registry, proposals \in Seq(Proposal)
  PROVE  LoopInv(Execute(st, p), done \cup {p})
<1> DEFINE prop == proposals[p]
           voters == {prop.votes[n].voter : n \in DOMAIN prop.votes}
           ok == Accepts(st.registry, prop.patch, prop.activation, prop.proposer, voters)
           r == submit_parameter_upgrade(st.registry, prop.patch, prop.activation)
           next == [registry |-> r, executed |-> st.executed \cup {p}]
<1>1. Execute(st, p) = IF ok THEN next ELSE st
  BY Zenon DEF Execute
<1>2. CASE ~ok
  <2>1. Execute(st, p) = st
    BY <1>1, <1>2
  <2> QED BY <2>1 DEF LoopInv
<1>3. CASE ok
  <2>1. prop \in Proposal
    OBVIOUS
  <2>2. prop.patch \in Patch /\ prop.activation \in Heights
    BY <2>1, Zenon DEF Proposal
  <2>3. p \notin st.executed /\ Cardinality(st.executed) \in Nat
        /\ IsFiniteSet(st.executed \cup {p})
        /\ Cardinality(st.executed \cup {p}) = Cardinality(st.executed) + 1
    BY FS_AddElement, FS_CardinalityType, Zenon DEF LoopInv
  <2>4. Extends(r, Cardinality(st.executed) + 1)
    BY <1>3, <2>2, <2>3, AcceptedExtends, Zenon DEF LoopInv
  <2> HIDE DEF r
  <2>5. next.registry = r /\ next.executed = st.executed \cup {p}
    OBVIOUS
  <2> HIDE DEF next
  <2>6. LoopInv(next, done \cup {p})
    BY <2>3, <2>4, <2>5, Zenon DEF LoopInv
  <2> QED BY <1>1, <1>3, <2>6
<1> QED BY <1>2, <1>3, Zenon

\* The loop executes some of the proposals it meets, each once.
LEMMA ExecuteAllSubmits ==
  ASSUME NEW S, IsFiniteSet(S), S \subseteq DOMAIN proposals,
         NEW order \in Bijection(1..Cardinality(S), S),
         registry \in Registry, HistoryMatches(registry), proposals \in Seq(Proposal)
  PROVE  LoopInv(ExecuteAll(order), S)
<1> DEFINE m == Cardinality(S)
           Done(i) == {order[j] : j \in 1..i}
<1>1. /\ order \in [1..m -> S] /\ m \in Nat
      /\ \A i, j \in 1..m : i # j => order[i] # order[j]
  BY FS_CardinalityType DEF Bijection, Injection, IsInjective
<1> HIDE DEF m
<1>2. Len(order) = m
  BY <1>1
<1>3. PICK s : IsRun(s, order, m) /\ ExecuteAll(order) = s[m]
  BY <1>1, <1>2, ExecuteAllRuns, Zenon
<1> DEFINE A == {i \in Nat : i <= m => LoopInv(s[i], Done(i))}
<1>4. 0 \in A
  <2>1. s[0].registry = registry /\ s[0].executed = {}
    BY <1>3 DEF IsRun
  <2>2. IsFiniteSet({}) /\ Cardinality({}) = 0
    BY FS_EmptySet, Zenon
  <2>3. LoopInv(s[0], Done(0))
    BY <2>1, <2>2, ExtendsItself DEF LoopInv
  <2> QED BY <2>3
<1>5. ASSUME NEW i \in Nat, i \in A PROVE i + 1 \in A
  <2> SUFFICES ASSUME i + 1 <= m PROVE LoopInv(s[i + 1], Done(i + 1))
    OBVIOUS
  <2>1. LoopInv(s[i], Done(i)) /\ i + 1 \in 1..m /\ (i + 1) - 1 = i
    BY <1>1, <1>5
  <2>2. s[i + 1] = Execute(s[i], order[i + 1])
    BY <1>3, <2>1 DEF IsRun
  <2>3. order[i + 1] \in DOMAIN proposals /\ order[i + 1] \notin Done(i)
    BY <1>1, <2>1
  <2>4. Done(i + 1) = Done(i) \cup {order[i + 1]}
    <3>1. 1..(i + 1) = (1..i) \cup {i + 1}
      OBVIOUS
    <3> QED BY <3>1, Zenon
  <2> HIDE DEF Done
  <2>5. LoopInv(Execute(s[i], order[i + 1]), Done(i) \cup {order[i + 1]})
    BY <2>1, <2>3, ExecuteStep, Zenon
  <2> QED BY <2>2, <2>4, <2>5, Zenon
<1>6. Nat \subseteq A
  <2> HIDE DEF A
  <2> QED BY <1>4, <1>5, SetInduction, Zenon
<1>7. Done(m) \subseteq S
  BY <1>1
<1>8. LoopInv(s[m], Done(m))
  <2> HIDE DEF Done
  <2> QED BY <1>1, <1>6
<1> HIDE DEF Done
<1> QED BY <1>3, <1>7, <1>8 DEF LoopInv

-----------------------------------------------------------------------------
(* The inductive invariant *)

\* The history says what is scheduled, and accounts for itself.
UpgradeInv == UpgradeTypeOK /\ HistoryMatches(registry) /\ UpgradesAccountedFor

ExecutedProposals == {p \in DOMAIN proposals : proposals[p].status = "Executed"}

\* Proposals are finite in number, and so are the executed ones.
LEMMA ExecutedAreFinite ==
  ASSUME proposals \in Seq(Proposal)
  PROVE  IsFiniteSet(DOMAIN proposals) /\ IsFiniteSet(ExecutedProposals)
         /\ Cardinality(ExecutedProposals) \in Nat
<1>1. DOMAIN proposals = 1..Len(proposals) /\ Len(proposals) \in Nat
  OBVIOUS
<1>2. IsFiniteSet(DOMAIN proposals)
  BY <1>1, FS_Interval
<1>3. ExecutedProposals \subseteq DOMAIN proposals
  BY DEF ExecutedProposals
<1> QED BY <1>2, <1>3, FS_Subset, FS_CardinalityType

\* At first nothing is scheduled.
LEMMA UpgradeInvInit == Init => UpgradeInv
<1> SUFFICES ASSUME Init PROVE UpgradeInv
  OBVIOUS
<1>1. governance \in Configs /\ registry = from_genesis_document(governance) /\ proposals = <<>>
      /\ configured \in BOOLEAN /\ responses = <<>>
  BY DEF Init, GovernanceInit
<1>2. NoPatch \in Patch /\ DOMAIN NoPatch = {}
  <2>1. NoPatch \in [{} -> Values] /\ {} \in SUBSET Fields
    BY DEF NoPatch
  <2> QED BY <2>1 DEF Patch
<1>3. 0 \in Heights
  BY ChainParamsAssumption DEF Heights
<1>4. /\ registry.current_height = 0 /\ registry.activations = [h \in Heights |-> NoPatch]
      /\ registry.upgrade_history = <<>> /\ registry.roles \in [Names -> Roles]
      /\ registry.current_height \in Heights
      /\ registry = [current_height |-> registry.current_height,
                     activations |-> registry.activations,
                     upgrade_history |-> registry.upgrade_history, roles |-> registry.roles]
  BY <1>1, <1>3 DEF from_genesis_document, Roles
<1>5. registry \in Registry
  <2>1. <<>> \in Seq(Upgrade) /\ [h \in Heights |-> NoPatch] \in [Heights -> Patch]
    BY <1>2
  <2> QED BY <1>4, <2>1, Zenon DEF Registry
<1>6. UpgradeTypeOK
  BY <1>1, <1>5 DEF UpgradeTypeOK
<1>7. HistoryMatches(registry)
  <2>1. \A a \in Heights, f \in Fields : Setters(registry, a, f) = {}
    BY <1>4 DEF Setters
  <2>2. \A a \in Heights, f \in Fields : f \notin DOMAIN registry.activations[a]
    BY <1>2, <1>4
  <2> QED BY <2>1, <2>2 DEF HistoryMatches
<1>8. UpgradesAccountedFor
  <2>1. {p \in DOMAIN proposals : proposals[p].status = "Executed"} = {}
    BY <1>1
  <2>2. Cardinality({}) = 0 /\ Len(<<>>) = 0 /\ DOMAIN <<>> = {}
    BY FS_EmptySet
  <2>3. Cardinality({p \in DOMAIN proposals : proposals[p].status = "Executed"}) = 0
    BY <2>1, <2>2, Zenon
  <2> QED BY <1>1, <1>4, <2>2, <2>3 DEF UpgradesAccountedFor
<1> QED BY <1>6, <1>7, <1>8 DEF UpgradeInv

\* A request that reaches a handler of the service carries the configured token.
LEMMA RequestStep ==
  ASSUME UpgradeInv, NEW metadata, NEW patch \in Patches, NEW a \in Heights,
         NEW proposer \in Addresses, NEW voters, NEW path,
         path \in {"network/ParameterUpgrade", "gateway/ParameterUpgrade"},
         Intercept(path, metadata),
         HandleUpgrade(extract_admin_token(metadata), patch, a, proposer, voters)
  PROVE  UpgradeInv' /\ Extends(registry', 1) /\ proposals' = proposals
<1>1. configured /\ extract_admin_token(metadata) = "right"
  BY DEF Intercept, is_admin_grpc_route
<1>2. /\ Accepts(registry, patch, a, proposer, voters)
      /\ registry' = submit_parameter_upgrade(registry, patch, a)
      /\ responses' = Append(responses, "right")
      /\ UNCHANGED <<governance, proposals, configured>>
  BY <1>1 DEF HandleUpgrade
<1>3. registry \in Registry /\ HistoryMatches(registry) /\ patch \in Patch
  BY GovernanceAssumption DEF UpgradeInv, UpgradeTypeOK
<1>4. Extends(registry', 1)
  <2>1. Extends(submit_parameter_upgrade(registry, patch, a), 0 + 1)
    BY <1>2, <1>3, ExtendsItself, AcceptedExtends, Zenon
  <2> QED BY <1>2, <2>1
<1>5. /\ responses \in Seq({"none", "wrong", "right", "basic"})
      /\ proposals \in Seq(Proposal) /\ governance \in Configs
  BY DEF UpgradeInv, UpgradeTypeOK
<1>6. /\ responses' \in Seq({"none", "wrong", "right", "basic"})
      /\ Len(responses') = Len(responses) + 1 /\ Len(responses) \in Nat
      /\ \A i \in DOMAIN responses' : i \in DOMAIN responses \/ responses'[i] = "right"
      /\ \A i \in DOMAIN responses : responses'[i] = responses[i]
  BY <1>2, <1>5
<1>7. UpgradeTypeOK' /\ HistoryMatches(registry')
  BY <1>1, <1>2, <1>4, <1>5, <1>6, Zenon DEF Extends, UpgradeInv, UpgradeTypeOK
<1>8. UpgradesAccountedFor'
  <2>1. /\ Len(registry'.upgrade_history) = Len(registry.upgrade_history) + 1
        /\ Len(registry.upgrade_history) = Cardinality(ExecutedProposals) + Len(responses)
        /\ ExecutedProposals' = ExecutedProposals
    BY <1>2, <1>4 DEF Extends, UpgradeInv, UpgradesAccountedFor, ExecutedProposals
  <2>2. Cardinality(ExecutedProposals) \in Nat
    BY <1>5, ExecutedAreFinite, Zenon
  <2>3. Len(registry'.upgrade_history) = Cardinality(ExecutedProposals') + Len(responses')
    BY <1>6, <2>1, <2>2
  <2>4. \A i \in DOMAIN responses' : responses'[i] = "right" /\ configured'
    BY <1>1, <1>2, <1>6, Zenon DEF UpgradeInv, UpgradesAccountedFor
  <2> QED BY <2>3, <2>4, Zenon DEF UpgradesAccountedFor, ExecutedProposals
<1> QED BY <1>2, <1>4, <1>7, <1>8 DEF UpgradeInv

\* What a step may do to proposals that are decided.
KeepsDecided == \A p \in DOMAIN proposals : proposals[p].status # "Voting" => proposals'[p] = proposals[p]

\* A new proposal is open.
LEMMA ProposeStep ==
  ASSUME UpgradeInv, NEW proposer \in Addresses, NEW patch \in Patches, NEW a \in Heights,
         propose(proposer, patch, a), UNCHANGED <<configured, responses>>
  PROVE  UpgradeInv' /\ registry' = registry /\ KeepsDecided
<1> DEFINE end == (registry.current_height + VotingDuration) % (MaxHeight + 1)
           prop == [proposer |-> proposer, patch |-> patch, activation |-> a, status |-> "Voting",
                    votes |-> [n \in {} |-> 0], end_height |-> end]
           n == Len(proposals)
<1>1. proposals' = Append(proposals, prop) /\ UNCHANGED <<governance, registry>>
  BY DEF propose
<1>2. proposals \in Seq(Proposal) /\ registry \in Registry
  BY DEF UpgradeInv, UpgradeTypeOK
<1>3. end \in Heights
  <2>1. registry.current_height \in Heights
    BY <1>2, Zenon DEF Registry
  <2>2. MaxHeight \in Nat /\ VotingDuration \in Nat
    BY ChainParamsAssumption, GovernanceAssumption
  <2>3. registry.current_height + VotingDuration \in Nat /\ MaxHeight + 1 \in Nat \ {0}
    BY <2>1, <2>2 DEF Heights
  <2>4. \A x \in Nat, y \in Nat \ {0} : x % y \in 0..(y - 1)
    OBVIOUS
  <2>5. end \in 0..((MaxHeight + 1) - 1)
    BY <2>3, <2>4, Zenon
  <2> QED BY <2>2, <2>5 DEF Heights
<1> HIDE DEF end
<1>4. prop \in Proposal /\ prop.status = "Voting"
  <2>1. [m \in {} |-> 0] \in [{} -> Vote] /\ {} \in SUBSET Names
    OBVIOUS
  <2>2. [m \in {} |-> 0] \in UNION {[s -> Vote] : s \in SUBSET Names}
    BY <2>1
  <2> QED BY <1>3, <2>2, GovernanceAssumption, Zenon DEF Proposal, Statuses
<1> HIDE DEF prop
<1>5. /\ proposals' \in Seq(Proposal) /\ DOMAIN proposals' = 1..(n + 1) /\ DOMAIN proposals = 1..n
      /\ n \in Nat /\ proposals'[n + 1] = prop /\ \A p \in 1..n : proposals'[p] = proposals[p]
  BY <1>1, <1>2, <1>4
<1>6. \A p \in DOMAIN proposals' : p \in DOMAIN proposals \/ proposals'[p] = prop
  BY <1>5
<1>7. ExecutedProposals' = ExecutedProposals
  BY <1>4, <1>5, <1>6 DEF ExecutedProposals
<1>8. UpgradesAccountedFor'
  BY <1>1, <1>7, Zenon DEF UpgradeInv, UpgradesAccountedFor, ExecutedProposals
<1>9. UpgradeTypeOK' /\ HistoryMatches(registry')
  BY <1>1, <1>5, Zenon DEF UpgradeInv, UpgradeTypeOK
<1>10. KeepsDecided
  BY <1>5, Zenon DEF KeepsDecided
<1> QED BY <1>1, <1>8, <1>9, <1>10, Zenon DEF UpgradeInv

\* A vote is added to a proposal that is open.
LEMMA CastVoteStep ==
  ASSUME UpgradeInv, NEW p \in DOMAIN proposals, NEW voter \in Addresses, NEW approve \in BOOLEAN,
         cast_vote(p, voter, approve), UNCHANGED <<configured, responses>>
  PROVE  UpgradeInv' /\ registry' = registry /\ KeepsDecided
<1> DEFINE old == proposals[p].votes
           who == normalize_id(voter)
           votes == [n \in DOMAIN old \cup {who} |->
                       IF n = who THEN [voter |-> voter, approve |-> approve] ELSE old[n]]
           new == [proposals[p] EXCEPT !.votes = votes]
           Ballots == UNION {[s -> Vote] : s \in SUBSET Names}
<1>1. proposals[p].status = "Voting" /\ UNCHANGED <<governance, registry>>
  BY DEF cast_vote
<1>2. proposals \in Seq(Proposal) /\ proposals[p] \in Proposal
  BY DEF UpgradeInv, UpgradeTypeOK
<1>3. votes \in Ballots
  <2>1. who \in Names /\ voter \in Address
    BY GovernanceAssumption DEF Address, normalize_id
  <2>2. PICK s \in SUBSET Names : old \in [s -> Vote]
    BY <1>2 DEF Proposal
  <2>3. [voter |-> voter, approve |-> approve] \in Vote
    BY <2>1, Zenon DEF Vote
  <2>4. votes \in [s \cup {who} -> Vote] /\ s \cup {who} \in SUBSET Names
    BY <2>1, <2>2, <2>3
  <2> QED BY <2>4, Zenon
<1>4. proposals' = [proposals EXCEPT ![p] = new]
  BY DEF cast_vote
<1> HIDE DEF votes, Ballots
<1>5. new \in Proposal /\ new.status = "Voting"
  BY <1>1, <1>2, <1>3, Zenon DEF Proposal, Ballots
<1> HIDE DEF new
<1>6. /\ proposals' \in Seq(Proposal) /\ DOMAIN proposals' = DOMAIN proposals /\ proposals'[p] = new
      /\ \A q \in DOMAIN proposals : q # p => proposals'[q] = proposals[q]
  BY <1>2, <1>4, <1>5
<1>7. ExecutedProposals' = ExecutedProposals
  BY <1>1, <1>5, <1>6 DEF ExecutedProposals
<1>8. UpgradesAccountedFor'
  BY <1>1, <1>7, Zenon DEF UpgradeInv, UpgradesAccountedFor, ExecutedProposals
<1>9. UpgradeTypeOK' /\ HistoryMatches(registry')
  BY <1>1, <1>6, Zenon DEF UpgradeInv, UpgradeTypeOK
<1>10. KeepsDecided
  BY <1>1, <1>6, Zenon DEF KeepsDecided
<1> QED BY <1>1, <1>8, <1>9, <1>10, Zenon DEF UpgradeInv

\* A tick decides the proposals that are due and executes some of those that pass.
LEMMA TickStep ==
  ASSUME UpgradeInv, tick, UNCHANGED <<configured, responses>>
  PROVE  UpgradeInv' /\ (\E n \in Nat : Extends(registry', n)) /\ KeepsDecided
<1> DEFINE due == {p \in DOMAIN proposals : Due(p)}
           passing == {p \in due : Passes(proposals[p])}
<1>1. proposals \in Seq(Proposal) /\ registry \in Registry /\ HistoryMatches(registry)
      /\ governance \in Configs
  BY DEF UpgradeInv, UpgradeTypeOK
<1>2. PICK order \in Bijection(1..Cardinality(passing), passing) :
        /\ registry' = ExecuteAll(order).registry
        /\ proposals' = [p \in DOMAIN proposals |->
             IF p \in due
             THEN [proposals[p] EXCEPT !.status =
                     IF p \in ExecuteAll(order).executed THEN "Executed"
                     ELSE IF p \in passing THEN "Passed" ELSE "Rejected"]
             ELSE proposals[p]]
  BY Zenon DEF tick
<1>3. governance' = governance
  BY Zenon DEF tick
<1>4. passing \subseteq DOMAIN proposals /\ IsFiniteSet(passing) /\ passing \subseteq due
      /\ due \subseteq DOMAIN proposals
  BY <1>1, ExecutedAreFinite, FS_Subset, Zenon
<1>5. \A p \in due : proposals[p].status = "Voting"
  BY DEF Due
<1> HIDE DEF due, passing
<1> DEFINE end == ExecuteAll(order)
           done == end.executed
           status(p) == IF p \in done THEN "Executed" ELSE IF p \in passing THEN "Passed" ELSE "Rejected"
<1>6. LoopInv(end, passing)
  BY <1>1, <1>4, ExecuteAllSubmits, Zenon
<1> HIDE DEF end
<1>7. /\ done \subseteq passing /\ IsFiniteSet(done) /\ Cardinality(done) \in Nat
      /\ Extends(registry', Cardinality(done))
  BY <1>2, <1>6, FS_CardinalityType, Zenon DEF LoopInv, end
<1>8. /\ DOMAIN proposals' = DOMAIN proposals
      /\ \A p \in due : proposals'[p] = [proposals[p] EXCEPT !.status = status(p)]
      /\ \A p \in DOMAIN proposals \ due : proposals'[p] = proposals[p]
  BY <1>2, <1>4, Zenon DEF end
<1> HIDE DEF done
<1>9. /\ proposals' \in Seq(Proposal)
      /\ \A p \in due : proposals'[p].status = status(p)
  <2>1. ASSUME NEW p \in due
        PROVE  proposals'[p] \in Proposal /\ proposals'[p].status = status(p)
    <3>1. status(p) \in Statuses
      BY DEF Statuses
    <3>2. proposals[p] \in Proposal /\ proposals'[p] = [proposals[p] EXCEPT !.status = status(p)]
      BY <1>1, <1>4, <1>8
    <3> HIDE DEF status
    <3> QED BY <3>1, <3>2, Zenon DEF Proposal
  <2>2. \A p \in DOMAIN proposals : proposals'[p] \in Proposal
    BY <1>1, <1>8, <2>1
  <2>3. proposals' = [p \in 1..Len(proposals) |-> proposals'[p]]
    BY <1>1, <1>2, <1>8
  <2> QED BY <1>1, <2>1, <2>2, <2>3
<1>10. UpgradesAccountedFor'
  <2>1. ExecutedProposals' = ExecutedProposals \cup done
    <3>1. \A p \in due : p \in ExecutedProposals' <=> p \in done
      BY <1>4, <1>8, <1>9, Zenon DEF ExecutedProposals
    <3>2. \A p \in due : p \notin ExecutedProposals
      BY <1>5 DEF ExecutedProposals
    <3>3. \A p \in DOMAIN proposals \ due : p \in ExecutedProposals' <=> p \in ExecutedProposals
      BY <1>8 DEF ExecutedProposals
    <3>4. ExecutedProposals \subseteq DOMAIN proposals /\ ExecutedProposals' \subseteq DOMAIN proposals
      BY <1>8, Zenon DEF ExecutedProposals
    <3> QED BY <1>4, <1>7, <3>1, <3>2, <3>3, <3>4, Zenon
  <2>2. ExecutedProposals \cap done = {}
    BY <1>4, <1>5, <1>7, Zenon DEF ExecutedProposals
  <2>3. Cardinality(ExecutedProposals') = Cardinality(ExecutedProposals) + Cardinality(done)
    <3>1. Cardinality(ExecutedProposals \cup done)
            = Cardinality(ExecutedProposals) + Cardinality(done) - Cardinality({})
      BY <1>1, <1>7, <2>2, ExecutedAreFinite, FS_Union, Zenon
    <3>2. Cardinality({}) = 0 /\ Cardinality(ExecutedProposals) \in Nat
      BY <1>1, ExecutedAreFinite, FS_EmptySet, Zenon
    <3> QED BY <1>7, <2>1, <3>1, <3>2
  <2>4. /\ Len(registry'.upgrade_history) = Len(registry.upgrade_history) + Cardinality(done)
        /\ Len(registry.upgrade_history) = Cardinality(ExecutedProposals) + Len(responses)
    BY <1>7 DEF Extends, UpgradeInv, UpgradesAccountedFor, ExecutedProposals
  <2>5. Len(responses) \in Nat /\ Cardinality(ExecutedProposals) \in Nat
    BY <1>1, ExecutedAreFinite DEF UpgradeInv, UpgradeTypeOK
  <2>6. Len(registry'.upgrade_history) = Cardinality(ExecutedProposals') + Len(responses')
    BY <1>7, <2>3, <2>4, <2>5
  <2> QED BY <2>6, Zenon DEF UpgradeInv, UpgradesAccountedFor, ExecutedProposals
<1>11. UpgradeTypeOK' /\ HistoryMatches(registry')
  BY <1>1, <1>3, <1>7, <1>9, Zenon DEF Extends, UpgradeInv, UpgradeTypeOK
<1>12. KeepsDecided
  BY <1>5, <1>8 DEF KeepsDecided
<1> QED BY <1>7, <1>10, <1>11, <1>12, Zenon DEF UpgradeInv

\* A role changes.
LEMMA RoleStep ==
  ASSUME UpgradeInv, NEW target \in Addresses, NEW role \in Roles,
         registry' = [registry EXCEPT !.roles[normalize_id(target)] = role],
         UNCHANGED <<governance, proposals, configured, responses>>
  PROVE  UpgradeInv' /\ registry'.activations = registry.activations
         /\ registry'.current_height = registry.current_height /\ KeepsDecided
<1> DEFINE who == normalize_id(target)
           roles == [registry.roles EXCEPT ![who] = role]
<1>1. registry \in Registry /\ HistoryMatches(registry)
  BY DEF UpgradeInv, UpgradeTypeOK
<1>2. roles \in [Names -> Roles]
  <2>1. who \in Names
    BY GovernanceAssumption DEF Address, normalize_id
  <2> QED BY <1>1, <2>1 DEF Registry
<1>3. registry' = [registry EXCEPT !.roles = roles]
  BY <1>1 DEF Registry
<1> HIDE DEF roles
<1>4. /\ registry' \in Registry /\ registry'.activations = registry.activations
      /\ registry'.current_height = registry.current_height
      /\ registry'.upgrade_history = registry.upgrade_history
  BY <1>1, <1>2, <1>3, Zenon DEF Registry
<1>5. HistoryMatches(registry')
  BY <1>1, <1>4 DEF HistoryMatches, Setters
<1>6. UpgradeTypeOK' /\ UpgradesAccountedFor'
  BY <1>4 DEF UpgradeInv, UpgradeTypeOK, UpgradesAccountedFor
<1>7. KeepsDecided
  BY DEF KeepsDecided
<1> QED BY <1>4, <1>5, <1>6, <1>7, Zenon DEF UpgradeInv

\* The tip moves.
LEMMA TipStep ==
  ASSUME UpgradeInv, NEW h \in Heights, SetChainTip(h), UNCHANGED <<configured, responses>>
  PROVE  UpgradeInv' /\ registry'.activations = registry.activations
         /\ registry'.current_height = h /\ KeepsDecided
<1>1. registry \in Registry /\ HistoryMatches(registry)
  BY DEF UpgradeInv, UpgradeTypeOK
<1>2. registry' = [registry EXCEPT !.current_height = h] /\ UNCHANGED <<governance, proposals>>
  BY DEF SetChainTip, set_chain_tip_height
<1>3. /\ registry' \in Registry /\ registry'.activations = registry.activations
      /\ registry'.current_height = h /\ registry'.roles = registry.roles
      /\ registry'.upgrade_history = registry.upgrade_history
  BY <1>1, <1>2, Zenon DEF Registry
<1>4. HistoryMatches(registry')
  BY <1>1, <1>3 DEF HistoryMatches, Setters
<1>5. UpgradeTypeOK' /\ UpgradesAccountedFor'
  BY <1>2, <1>3 DEF UpgradeInv, UpgradeTypeOK, UpgradesAccountedFor
<1>6. KeepsDecided
  BY <1>2 DEF KeepsDecided
<1> QED BY <1>3, <1>4, <1>5, <1>6, Zenon DEF UpgradeInv

\* What a step may do to the patches: add upgrades, or leave them and move the tip.
KeepsThePast ==
  \/ \E n \in Nat : Extends(registry', n)
  \/ registry'.activations = registry.activations /\ registry'.current_height \in Heights

\* Every step of the service keeps the invariant, the decided proposals and the past.
LEMMA UpgradeStep ==
  ASSUME UpgradeInv, [Next]_vars
  PROVE  UpgradeInv' /\ KeepsDecided /\ KeepsThePast
<1>1. registry \in Registry /\ registry.current_height \in Heights
  BY Zenon DEF UpgradeInv, UpgradeTypeOK, Registry
<1>2. CASE UNCHANGED vars
  <2>1. UNCHANGED <<governance, registry, proposals, configured, responses>>
    BY <1>2, Zenon DEF vars
  <2>2. HistoryMatches(registry') /\ UpgradeTypeOK'
    BY <2>1, Zenon DEF UpgradeInv, UpgradeTypeOK
  <2>3. UpgradesAccountedFor'
    BY <2>1, Zenon DEF UpgradeInv, UpgradesAccountedFor
  <2> QED BY <1>1, <2>1, <2>2, <2>3, Zenon DEF UpgradeInv, KeepsDecided, KeepsThePast
<1>3. CASE Requests
  <2>1. PICK metadata \in Metadata, patch \in Patches, a \in Heights,
             proposer \in Addresses, voters \in VoterLists :
          \/ parameter_upgrade(metadata, patch, a, proposer, voters)
          \/ gateway_parameter_upgrade(metadata, patch, a, proposer, voters)
    BY <1>3, Zenon DEF Requests
  <2>2. /\ HandleUpgrade(extract_admin_token(metadata), patch, a, proposer, voters)
        /\ \/ Intercept("network/ParameterUpgrade", metadata)
           \/ Intercept("gateway/ParameterUpgrade", metadata)
    BY <2>1, Zenon DEF parameter_upgrade, gateway_parameter_upgrade
  <2>3. UpgradeInv' /\ Extends(registry', 1) /\ proposals' = proposals
    BY <2>2, RequestStep, Zenon
  <2> QED BY <2>3, Zenon DEF KeepsDecided, KeepsThePast
<1>4. CASE Voting /\ UNCHANGED <<configured, responses>>
  <2>1. ASSUME NEW a \in Addresses, NEW patch \in Patches, NEW h \in Heights, propose(a, patch, h)
        PROVE  UpgradeInv' /\ KeepsDecided /\ KeepsThePast
    BY <1>1, <1>4, <2>1, ProposeStep, Zenon DEF KeepsThePast
  <2>2. ASSUME NEW p \in DOMAIN proposals, NEW a \in Addresses, NEW b \in BOOLEAN, cast_vote(p, a, b)
        PROVE  UpgradeInv' /\ KeepsDecided /\ KeepsThePast
    BY <1>1, <1>4, <2>2, CastVoteStep, Zenon DEF KeepsThePast
  <2>3. CASE tick
    BY <1>4, <2>3, TickStep, Zenon DEF KeepsThePast
  <2> QED BY <1>4, <2>1, <2>2, <2>3, Zenon DEF Voting
<1>5. CASE Administration /\ UNCHANGED <<configured, responses>>
  <2>1. ASSUME NEW a \in Addresses, NEW b \in Addresses, NEW r \in GrantedRoles, GrantRole(a, b, r)
        PROVE  UpgradeInv' /\ KeepsDecided /\ KeepsThePast
    <3>1. r \in Roles
      BY UpgradeAssumption
    <3>2. UpgradeInv' /\ registry'.activations = registry.activations
          /\ registry'.current_height = registry.current_height /\ KeepsDecided
      BY <1>5, <2>1, <3>1, RoleStep, Zenon DEF GrantRole, grant_role
    <3> QED BY <1>1, <3>2, Zenon DEF KeepsThePast
  <2>2. ASSUME NEW a \in Addresses, NEW b \in Addresses, RevokeRole(a, b)
        PROVE  UpgradeInv' /\ KeepsDecided /\ KeepsThePast
    <3>1. "None" \in Roles
      BY DEF Roles
    <3>2. UpgradeInv' /\ registry'.activations = registry.activations
          /\ registry'.current_height = registry.current_height /\ KeepsDecided
      BY <1>5, <2>2, <3>1, RoleStep, Zenon DEF RevokeRole, revoke_role
    <3> QED BY <1>1, <3>2 DEF KeepsThePast
  <2>3. ASSUME NEW h \in Heights, SetChainTip(h)
        PROVE  UpgradeInv' /\ KeepsDecided /\ KeepsThePast
    BY <1>5, <2>3, TipStep DEF KeepsThePast
  <2> QED BY <1>5, <2>1, <2>2, <2>3, Zenon DEF Administration
<1> QED BY <1>2, <1>3, <1>4, <1>5, Zenon DEF Next

-----------------------------------------------------------------------------
(* The theorems *)

\* The invariant holds throughout.
LEMMA UpgradeInvariant == Spec => []UpgradeInv
BY UpgradeInvInit, UpgradeStep, PTL DEF Spec

\* Every upgrade in the history is that of one executed proposal or was requested by
\* one client that presented the configured token: a tick, which submits several
\* proposals in any order, marks as executed exactly those the registry accepted.
THEOREM HistoryIsAccountedFor == Spec => []UpgradesAccountedFor
<1>1. UpgradeInv => UpgradesAccountedFor
  BY DEF UpgradeInv
<1> QED BY <1>1, UpgradeInvariant, PTL

\* The history, which the node reports, explains the parameters of every height and
\* the active ones, although merged patches are all that the registry keeps.
THEOREM HistoryExplains == Spec => []HistoryExplainsParameters
<1>1. UpgradeInv => HistoryExplainsParameters
  BY MatchingHistoryExplains DEF UpgradeInv, UpgradeTypeOK
<1> QED BY <1>1, UpgradeInvariant, PTL

\* A tick decides a proposal once, and no vote is added to a decided one.
THEOREM DecisionsAreFinal == Spec => DecidedIsFinal
<1>1. UpgradeInv /\ [Next]_vars =>
        [\A p \in DOMAIN proposals :
           proposals[p].status # "Voting" => proposals'[p] = proposals[p]]_vars
  BY UpgradeStep DEF KeepsDecided
<1> QED BY <1>1, UpgradeInvariant, PTL DEF Spec, DecidedIsFinal

\* What is in force at a height depends on the patches up to that height.
LEMMA EffectiveDepends ==
  ASSUME NEW r, NEW q, NEW h, \A i \in 0..h : r.activations[i] = q.activations[i]
  PROVE  effective_parameters_at(r, h) = effective_parameters_at(q, h)
<1>1. [i \in 0..h |-> r.activations[i]] = [i \in 0..h |-> q.activations[i]]
  OBVIOUS
<1> QED BY <1>1, Zenon DEF effective_parameters_at

\* The genesis parameters are in force at every height at first.
LEMMA ScheduleInit == Init => Schedule!Init
<1> SUFFICES ASSUME Init PROVE Schedule!Init
  BY Zenon
<1>1. registry.current_height = 0 /\ registry.activations = [h \in Heights |-> NoPatch]
  BY DEF Init, GovernanceInit, from_genesis_document
<1>2. DOMAIN NoPatch = {}
  BY DEF NoPatch
<1>3. ASSUME NEW h \in Heights
      PROVE  effective_parameters_at(registry, h) = genesis_parameters
  <2>1. h \in Nat /\ \A i \in 0..h : i \in Heights
    BY ChainParamsAssumption DEF Heights
  <2>2. \A i \in 0..h : DOMAIN registry.activations[i] = {}
    BY <1>1, <1>2, <2>1, Zenon
  <2>3. \A f \in Fields : SetBy(effective_parameters_at(registry, h)[f], registry.activations, h, f)
    BY <2>1, <2>2, EffectiveParameters, Zenon
  <2>4. \A f \in Fields : effective_parameters_at(registry, h)[f] = 0
    BY <2>2, <2>3 DEF SetBy
  <2>5. effective_parameters_at(registry, h) = [f \in Fields |-> effective_parameters_at(registry, h)[f]]
    BY <2>1, <2>2, EffectiveParameters, Zenon
  <2> QED BY <2>4, <2>5 DEF genesis_parameters
<1> QED BY <1>1, <1>3 DEF Schedule!Init, Heights

\* A step that keeps the past is a step of the schedule.
LEMMA ScheduleStep ==
  ASSUME registry \in Registry, KeepsThePast
  PROVE  Schedule!Next
<1>1. CASE \E n \in Nat : Extends(registry', n)
  <2>1. PICK n \in Nat : Extends(registry', n)
    BY <1>1
  <2>2. registry'.current_height = registry.current_height
    BY <2>1 DEF Extends
  <2>3. ASSUME NEW h \in Heights, Fixed(h)
        PROVE  effective_parameters_at(registry', h) = effective_parameters_at(registry, h)
    <3>1. ASSUME NEW i \in 0..h PROVE registry'.activations[i] = registry.activations[i]
      <4>1. registry.current_height \in Heights /\ MaxHeight \in Nat /\ MinDelay \in Nat
        BY ChainParamsAssumption DEF Registry
      <4>2. i \in Heights /\ Fixed(i)
        BY <2>3, <4>1 DEF Heights, Fixed
      <4> QED BY <2>1, <4>2, Zenon DEF Extends
    <3> QED BY <3>1, EffectiveDepends, Zenon
  <2> QED BY <2>2, <2>3 DEF Schedule!Next, Schedule!Announce, Heights, Fixed
<1>2. CASE registry'.activations = registry.activations /\ registry'.current_height \in Heights
  <2>1. \A h \in Heights : effective_parameters_at(registry', h) = effective_parameters_at(registry, h)
    BY <1>2, EffectiveDepends
  <2> QED BY <1>2, <2>1, Zenon DEF Schedule!Next, Schedule!MoveTip, Heights
<1> QED BY <1>1, <1>2 DEF KeepsThePast

\* The registry implements ParameterSchedule: accepted upgrades, merged patches,
\* executed proposals and a tip that moves either way never change what is in force
\* at a height less than the activation delay above the tip, with any delay, 0 too.
THEOREM RegistryImplementsSchedule == Spec => ScheduleSpec
<1>1. UpgradeInv => registry \in Registry
  BY DEF UpgradeInv, UpgradeTypeOK
<1>2. UpgradeInv /\ [Next]_vars => Schedule!Next
  BY <1>1, UpgradeStep, ScheduleStep, Zenon
<1>3. Schedule!Next => [Schedule!Next]_<<registry.current_height,
                         [h \in Heights |-> effective_parameters_at(registry, h)]>>
  OBVIOUS
<1> QED BY <1>2, <1>3, ScheduleInit, UpgradeInvariant, PTL DEF Spec, ScheduleSpec, Schedule!Spec
=============================================================================
