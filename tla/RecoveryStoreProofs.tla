------------------------ MODULE RecoveryStoreProofs ------------------------
(***************************************************************************)
(* TLAPS proofs about RecoveryStore, for any number of puts, processes,    *)
(* keys and originals: type correctness, and if no two puts make up the    *)
(* same temporary name, that mappings are whole and acknowledged ones      *)
(* stay.                                                                   *)
(***************************************************************************)
EXTENDS RecoveryStore, TLAPS

USE StoreAssumption

LEMMA ArgsAreNot == \A args \in Args : args # NoArgs /\ args.dir \in Dir /\ args.key \in Key
BY DEF Args, NoArgs, Dir

LEMMA TypeInit == Init => TypeOK
BY DEF Init, TypeOK, Running, Returned, Unstarted, Gone

(* Of a put under way, the key and the temporary name are of the store.    *)
LEMMA Places ==
  ASSUME TypeOK, NEW w \in Writer, put[w] \in Args
  PROVE  At(w) \in Dir \X Key /\ TempOf(w) \in Temp
BY ArgsAreNot DEF At, TempOf, Temp

LEMMA TypeStep ==
  ASSUME TypeOK, [Next]_vars
  PROVE  TypeOK'
<1>1. ASSUME NEW w \in Writer, NEW args \in Args, Begin(w, args)
      PROVE  TypeOK'
  BY <1>1 DEF Begin, Goto, TypeOK, Running, Returned, Unstarted, Gone
<1>2. ASSUME NEW w \in Writer, Check(w)
      PROVE  TypeOK'
  BY <1>2 DEF Check, Goto, TypeOK, Running, Returned, Unstarted, Gone
<1>3. ASSUME NEW w \in Writer, Create(w)
      PROVE  TypeOK'
  <2>1. put[w] \in Args /\ TempOf(w) \in Temp
    BY <1>3, Places DEF Create, TypeOK, Running
  <2>2. temp' \in [Temp -> Writer \cup {Absent}]
    BY <1>3, <2>1 DEF Create, Fail, TypeOK
  <2>3. \E s \in {"write", "error"} : step' = [step EXCEPT ![w] = s]
    BY <1>3 DEF Create, Fail, Goto
  <2>4. QED
    BY <1>3, <2>1, <2>2, <2>3 DEF Create, TypeOK, Running, Returned
<1>4. ASSUME NEW w \in Writer, Write(w)
      PROVE  TypeOK'
  <2>1. put[w] \in Args /\ TempOf(w) \in Temp
    BY <1>4, Places DEF Write, TypeOK, Running
  <2>2. temp' \in [Temp -> Writer \cup {Absent}]
    BY <1>4, <2>1 DEF Write, Fail, TypeOK
  <2>3. \/ step' = [step EXCEPT ![w] = "rename"] /\ whole' = whole \cup {w}
        \/ step' = [step EXCEPT ![w] = "error"] /\ whole' = whole
    BY <1>4 DEF Write, Fail, Goto
  <2>4. QED
    BY <1>4, <2>1, <2>2, <2>3 DEF Write, TypeOK, Running, Returned
<1>5. ASSUME NEW w \in Writer, Rename(w)
      PROVE  TypeOK'
  <2>1. put[w] \in Args /\ TempOf(w) \in Temp /\ At(w) \in Dir \X Key
    BY <1>5, Places DEF Rename, TypeOK, Running
  <2>2. /\ temp' \in [Temp -> Writer \cup {Absent}]
        /\ file' \in [Dir \X Key -> Writer \cup {Absent}]
    BY <1>5, <2>1 DEF Rename, Fail, TypeOK
  <2>3. \E s \in Returned : step' = [step EXCEPT ![w] = s]
    BY <1>5 DEF Rename, Fail, Goto, Returned
  <2>4. QED
    BY <1>5, <2>1, <2>2, <2>3 DEF Rename, TypeOK, Running, Returned
<1>6. ASSUME NEW p \in Process, Kill(p)
      PROVE  TypeOK'
  BY <1>6 DEF Kill, TypeOK, Running, Returned, Unstarted, Gone
<1>7. CASE UNCHANGED vars
  BY <1>7 DEF vars, TypeOK
<1>8. QED
  BY <1>1, <1>2, <1>3, <1>4, <1>5, <1>6, <1>7 DEF Next

(* Every reachable state is well typed; a put about to rename its file has *)
(* written it.                                                             *)
THEOREM StoreTypeCorrect == Spec => []TypeOK
BY TypeInit, TypeStep, PTL DEF Spec

----------------------------------------------------------------------------
(* Whole originals *)

(* No two puts make up the same temporary name.                            *)
DistinctNames == \A w, v \in Writer : NameOf[w] = NameOf[v] => w = v

(* A name denotes a file of the put that made it up.                       *)
Owned == \A n \in Temp : temp[n] # Absent => NameOf[temp[n]] = n[2]

(* Arguments are fixed when a put begins, and a put counts as done before  *)
(* another only once it has returned.                                      *)
Fixed ==
  /\ \A w \in Writer : step[w] = Unstarted => put[w] = NoArgs
  /\ \A w \in Writer : \A v \in doneBefore[w] : step[v] \in Returned

Mapped ==
  \A at \in Dir \X Key :
    file[at] # Absent =>
      /\ file[at] \in Writer /\ file[at] \in whole
      /\ put[file[at]] \in Args /\ At(file[at]) = at

WInv == TypeOK /\ Owned /\ Fixed /\ Mapped

LEMMA WInit == Init => WInv
BY TypeInit DEF WInv, Init, Owned, Fixed, Mapped

(* The file that a put renames is its own.                                 *)
LEMMA OwnFile ==
  ASSUME DistinctNames, WInv, NEW w \in Writer, put[w] \in Args,
         temp[TempOf(w)] # Absent
  PROVE  temp[TempOf(w)] = w
<1>1. TempOf(w) \in Temp /\ TempOf(w)[2] = NameOf[w]
  BY Places DEF WInv, TempOf
<1>2. temp[TempOf(w)] \in Writer
  BY <1>1 DEF WInv, TypeOK
<1>3. QED
  BY <1>1, <1>2 DEF WInv, Owned, DistinctNames

LEMMA WStep ==
  ASSUME DistinctNames, WInv, [Next]_vars
  PROVE  WInv'
<1> USE DEF WInv
<1>1. TypeOK'
  BY TypeStep
<1>2. ASSUME NEW w \in Writer, NEW args \in Args, Begin(w, args)
      PROVE  WInv'
  <2>1. Owned'
    BY <1>2 DEF Begin, Owned
  <2>2. Fixed'
    BY <1>2 DEF Begin, Goto, Fixed, TypeOK, Unstarted, Returned
  <2>3. \A v \in Writer : put[v] \in Args => put'[v] = put[v] /\ At(v)' = At(v)
    BY <1>2, ArgsAreNot DEF Begin, Fixed, TypeOK, At
  <2>4. Mapped'
    BY <1>2, <2>3 DEF Begin, Mapped
  <2>5. QED
    BY <1>1, <2>1, <2>2, <2>4
<1>3. ASSUME NEW w \in Writer, Check(w)
      PROVE  WInv'
  <2>1. Fixed'
    BY <1>3 DEF Check, Goto, Fixed, TypeOK, Unstarted, Returned
  <2>2. Owned' /\ Mapped'
    BY <1>3 DEF Check, Owned, Mapped, At
  <2>3. QED
    BY <1>1, <2>1, <2>2
<1>4. ASSUME NEW w \in Writer, Create(w) \/ Write(w)
      PROVE  WInv'
  <2>1. put[w] \in Args /\ TempOf(w) \in Temp /\ TempOf(w)[2] = NameOf[w]
    BY <1>4, Places DEF Create, Write, TypeOK, Running, TempOf
  <2>2. Owned'
    BY <1>4, <2>1 DEF Create, Write, Fail, Owned, TypeOK
  <2>3. Fixed'
    BY <1>4 DEF Create, Write, Fail, Goto, Fixed, TypeOK, Unstarted, Returned
  <2>4. Mapped'
    BY <1>4 DEF Create, Write, Mapped, At
  <2>5. QED
    BY <1>1, <2>2, <2>3, <2>4
<1>5. ASSUME NEW w \in Writer, Rename(w)
      PROVE  WInv'
  <2>1. put[w] \in Args /\ TempOf(w) \in Temp /\ At(w) \in Dir \X Key /\ w \in whole
    BY <1>5, Places DEF Rename, TypeOK, Running
  <2>2. Owned'
    BY <1>5, <2>1 DEF Rename, Fail, Owned, TypeOK
  <2>3. Fixed'
    BY <1>5 DEF Rename, Fail, Goto, Fixed, TypeOK, Unstarted, Returned
  <2>4. \A v : At(v)' = At(v)
    BY <1>5 DEF Rename, At
  <2>5. file' = file \/ file' = [file EXCEPT ![At(w)] = w]
    BY <1>5, <2>1, OwnFile DEF Rename
  <2>6. Mapped'
    BY <1>5, <2>1, <2>4, <2>5 DEF Rename, Mapped, TypeOK
  <2>7. QED
    BY <1>1, <2>2, <2>3, <2>6
<1>6. ASSUME NEW p \in Process, Kill(p)
      PROVE  WInv'
  <2>1. Fixed'
    BY <1>6 DEF Kill, Fixed, TypeOK, Running, Unstarted, Returned, Gone
  <2>2. Owned' /\ Mapped'
    BY <1>6 DEF Kill, Owned, Mapped, At
  <2>3. QED
    BY <1>1, <2>1, <2>2
<1>7. CASE UNCHANGED vars
  BY <1>1, <1>7 DEF vars, Owned, Fixed, Mapped, At
<1>8. QED
  BY <1>2, <1>3, <1>4, <1>5, <1>6, <1>7 DEF Next

(* Whatever is under a key is a whole original offered for that key, with  *)
(* any number of puts, failures and kills, if temporary names differ.      *)
THEOREM OriginalsWhole ==
  ASSUME DistinctNames
  PROVE  Spec => []WholeOriginals
<1>1. Init => WInv
  BY WInit
<1>2. WInv /\ [Next]_vars => WInv'
  BY WStep
<1>3. WInv => WholeOriginals
  BY DEF WInv, Mapped, WholeOriginals
<1>4. QED
  BY <1>1, <1>2, <1>3, PTL DEF Spec

----------------------------------------------------------------------------
(* Acknowledged mappings *)

(* A put that found its key absent overlaps every put that returned Ok     *)
(* with a mapping under that key.                                          *)
Absented ==
  \A u \in Writer :
    step[u] \in {"create", "write", "rename"} =>
      \A w \in doneBefore[u] : step[w] = "ok" => At(w) # At(u)

AInv == WInv /\ Absented /\ Acknowledged

LEMMA AInit == Init => AInv
BY WInit DEF AInv, Init, Absented, Acknowledged, Unstarted

(* Mappings stay while no put is acknowledged, begins or renames.          *)
LEMMA Kept ==
  ASSUME AInv, UNCHANGED <<file, put, doneBefore>>,
         \A w \in Writer : step'[w] = "ok" => step[w] = "ok",
         \A u \in Writer : step'[u] \in {"create", "write", "rename"} =>
                            step[u] \in {"create", "write", "rename"}
  PROVE  Absented' /\ Acknowledged'
<1>1. \A v : At(v)' = At(v)
  BY DEF At
<1>2. Absented'
  <2>1. SUFFICES ASSUME NEW u \in Writer, step'[u] \in {"create", "write", "rename"},
                        NEW w \in doneBefore[u], step'[w] = "ok"
                 PROVE  At(w) # At(u)
    BY <1>1 DEF Absented
  <2>2. w \in Writer
    BY DEF AInv, WInv, TypeOK
  <2>3. QED
    BY <2>1, <2>2 DEF AInv, Absented
<1>3. Acknowledged'
  BY <1>1 DEF AInv, Acknowledged, Overlap
<1>4. QED
  BY <1>2, <1>3

LEMMA AStep ==
  ASSUME DistinctNames, AInv, [Next]_vars
  PROVE  AInv'
<1> USE DEF AInv
<1>1. WInv'
  BY WStep
<1>0. TypeOK /\ Fixed /\ Mapped /\ Absented /\ Acknowledged
  BY DEF WInv
<1>2. ASSUME NEW u \in Writer, NEW args \in Args, Begin(u, args)
      PROVE  AInv'
  <2>1. put[u] = NoArgs /\ step' = [step EXCEPT ![u] = "check"] /\ file' = file
    BY <1>0, <1>2 DEF Begin, Goto, Fixed
  <2>2. \A v \in Writer \ {u} : /\ put'[v] = put[v] /\ At(v)' = At(v)
                                /\ doneBefore'[v] = doneBefore[v] /\ step'[v] = step[v]
    BY <1>0, <1>2 DEF Begin, Goto, TypeOK, At
  <2>3. step'[u] = "check" /\ step[u] = "unstarted"
    BY <1>0, <1>2 DEF Begin, Goto, TypeOK, Unstarted
  <2>4. Absented'
    <3>1. SUFFICES ASSUME NEW x \in Writer, step'[x] \in {"create", "write", "rename"},
                          NEW w \in doneBefore'[x], step'[w] = "ok"
                   PROVE  At(w)' # At(x)'
      BY DEF Absented
    <3>2. x # u /\ w \in Writer /\ w # u
      BY <1>1, <2>3, <3>1 DEF WInv, TypeOK
    <3>3. QED
      BY <1>0, <2>2, <3>1, <3>2 DEF Absented
  <2>5. Acknowledged'
    <3>1. SUFFICES ASSUME NEW w \in Writer, step'[w] = "ok"
                   PROVE  (/\ file[At(w)] # Absent
                           /\ w \notin doneBefore[file[At(w)]]
                           /\ \/ put[w].dir = "sigil"
                              \/ put[file[At(w)]].original = put[w].original
                              \/ \E v \in Writer \ {w} :
                                   put[v] # NoArgs /\ At(v) = At(w) /\ Overlap(v, w))'
      BY DEF Acknowledged
    <3>2. w # u /\ step[w] = "ok"
      BY <2>2, <2>3, <3>1
    <3>3. At(w) \in Dir \X Key
      BY <1>0, <3>2, Places DEF TypeOK, Returned
    <3>4. file[At(w)] \in Writer \ {u}
      BY <1>0, <2>1, <3>2, <3>3, ArgsAreNot DEF Acknowledged, Mapped
    <3>5. ASSUME NEW v \in Writer \ {w}, put[v] # NoArgs, At(v) = At(w), Overlap(v, w)
          PROVE  (put[v] # NoArgs /\ At(v) = At(w) /\ Overlap(v, w))'
      BY <2>1, <2>2, <3>2, <3>5 DEF Overlap
    <3>6. QED
      BY <1>0, <2>1, <2>2, <3>2, <3>4, <3>5 DEF Acknowledged
  <2>6. QED
    BY <1>1, <2>4, <2>5
<1>3. ASSUME NEW u \in Writer, Check(u)
      PROVE  AInv'
  <2>1. CASE step' = [step EXCEPT ![u] = "error"]
    BY <1>1, <1>3, <2>1, <1>0, Kept DEF Check, TypeOK
  <2>2. CASE file[At(u)] = Absent /\ step' = [step EXCEPT ![u] = "create"]
    <3>1. \A v : At(v)' = At(v)
      BY <1>3 DEF Check, At
    <3>2. \A w \in Writer : step'[w] = "ok" => step[w] = "ok" /\ At(w) # At(u)
      BY <1>0, <2>2 DEF Acknowledged, TypeOK
    <3>3. Absented'
      <4>1. SUFFICES ASSUME NEW x \in Writer, step'[x] \in {"create", "write", "rename"},
                            NEW w \in doneBefore[x], step'[w] = "ok"
                     PROVE  At(w) # At(x)
        BY <1>3, <3>1 DEF Absented, Check
      <4>2. w \in Writer /\ step[w] = "ok" /\ At(w) # At(u)
        BY <1>0, <3>2, <4>1 DEF TypeOK
      <4>3. CASE x = u
        BY <4>2, <4>3
      <4>4. CASE x # u
        BY <1>0, <2>2, <4>1, <4>2, <4>4 DEF Absented, TypeOK
      <4>5. QED
        BY <4>3, <4>4
    <3>4. Acknowledged'
      BY <1>0, <1>3, <3>1, <3>2 DEF Acknowledged, Overlap, Check
    <3>5. QED
      BY <1>1, <3>3, <3>4
  <2>3. CASE file[At(u)] # Absent /\ Accepts(u, file[At(u)]) /\ step' = [step EXCEPT ![u] = "ok"]
    <3>1. \A v : At(v)' = At(v)
      BY <1>3 DEF Check, At
    <3>2. step[u] = "check" /\ put[u] \in Args /\ At(u) \in Dir \X Key
      BY <1>0, <1>3, Places DEF Check, TypeOK, Running
    <3>3. \A v \in Writer : u \notin doneBefore[v]
      BY <1>0, <3>2 DEF Fixed, Returned
    <3>4. Absented'
      <4>1. SUFFICES ASSUME NEW x \in Writer, step'[x] \in {"create", "write", "rename"},
                            NEW w \in doneBefore[x], step'[w] = "ok"
                     PROVE  At(w) # At(x)
        BY <1>3, <3>1 DEF Absented, Check
      <4>2. w \in Writer /\ w # u /\ x # u
        BY <1>0, <2>3, <3>3, <4>1 DEF TypeOK
      <4>3. QED
        BY <1>0, <2>3, <4>1, <4>2 DEF Absented, TypeOK
    <3>5. file[At(u)] \in Writer
      BY <1>0, <2>3, <3>2 DEF Mapped
    <3>6. put[u].dir = "sigil" \/ put[file[At(u)]].original = put[u].original
      BY <2>3, <3>2, ArgsAreNot DEF Accepts, Dir
    <3>7. Acknowledged'
      BY <1>0, <1>3, <2>3, <3>1, <3>3, <3>5, <3>6 DEF Acknowledged, Overlap, Check, TypeOK
    <3>8. QED
      BY <1>1, <3>4, <3>7
  <2>4. QED
    BY <1>3, <2>1, <2>2, <2>3 DEF Check, Goto
<1>4. ASSUME NEW u \in Writer, Create(u) \/ Write(u)
      PROVE  AInv'
  BY <1>0, <1>1, <1>4, Kept DEF Create, Write, Fail, Goto, TypeOK
<1>5. ASSUME NEW u \in Writer, Rename(u)
      PROVE  AInv'
  <2>1. step[u] = "rename" /\ put[u] \in Args /\ At(u) \in Dir \X Key
    BY <1>0, <1>5, Places DEF Rename, TypeOK, Running
  <2>2. \A v : At(v)' = At(v)
    BY <1>5 DEF Rename, At
  <2>3. \A v \in Writer : u \notin doneBefore[v]
    BY <1>0, <2>1 DEF Fixed, Returned
  <2>4. \E s \in Returned : step' = [step EXCEPT ![u] = s]
    BY <1>5 DEF Rename, Fail, Goto, Returned
  <2>5. CASE file' = file /\ step' = [step EXCEPT ![u] = "error"]
    BY <1>0, <1>1, <1>5, <2>5, Kept DEF Rename, TypeOK
  <2>6. CASE file' = [file EXCEPT ![At(u)] = u]
    <3>1. Absented'
      <4>1. SUFFICES ASSUME NEW x \in Writer, step'[x] \in {"create", "write", "rename"},
                            NEW w \in doneBefore[x], step'[w] = "ok"
                     PROVE  At(w) # At(x)
        BY <1>5, <2>2 DEF Absented, Rename
      <4>2. w \in Writer /\ w # u /\ x # u
        BY <1>0, <2>3, <2>4, <4>1 DEF TypeOK, Returned
      <4>3. QED
        BY <1>0, <2>4, <4>1, <4>2 DEF Absented, TypeOK
    <3>2. put[u] # NoArgs /\ u # Absent
      BY <2>1, ArgsAreNot
    <3>3. ASSUME NEW w \in Writer, step'[w] = "ok"
          PROVE  /\ file'[At(w)] # Absent
                 /\ w \notin doneBefore[file'[At(w)]]
                 /\ \/ put[w].dir = "sigil"
                    \/ put[file'[At(w)]].original = put[w].original
                    \/ \E v \in Writer \ {w} :
                         put[v] # NoArgs /\ At(v) = At(w) /\ Overlap(v, w)
      <4>1. CASE w = u
        BY <1>0, <2>1, <2>3, <2>6, <3>2, <4>1 DEF TypeOK
      <4>2. CASE w # u /\ At(w) # At(u)
        <5>1. step[w] = "ok"
          BY <1>0, <2>4, <3>3, <4>2 DEF TypeOK
        <5>2. file'[At(w)] = file[At(w)]
          BY <1>0, <2>6, <4>2, <5>1, Places DEF TypeOK, Returned
        <5>3. QED
          BY <1>0, <5>1, <5>2 DEF Acknowledged
      <4>3. CASE w # u /\ At(w) = At(u)
        <5>1. step[w] = "ok"
          BY <1>0, <2>4, <3>3, <4>3 DEF TypeOK
        <5>2. w \notin doneBefore[u]
          BY <1>0, <2>1, <4>3, <5>1 DEF Absented
        <5>3. Overlap(u, w)
          BY <2>3, <5>2 DEF Overlap
        <5>4. file'[At(w)] = u
          BY <1>0, <2>1, <2>6, <4>3 DEF TypeOK
        <5>5. QED
          BY <3>2, <4>3, <5>2, <5>3, <5>4
      <4>4. QED
        BY <4>1, <4>2, <4>3
    <3>4. Acknowledged'
      BY <1>5, <2>2, <3>3 DEF Acknowledged, Overlap, Rename
    <3>5. QED
      BY <1>1, <3>1, <3>4
  <2>7. QED
    BY <1>0, <1>5, <2>1, <2>5, <2>6, OwnFile DEF Rename, Fail, Goto
<1>6. ASSUME NEW p \in Process, Kill(p)
      PROVE  AInv'
  BY <1>0, <1>1, <1>6, Kept DEF Kill, TypeOK, Running, Unstarted, Gone
<1>7. CASE UNCHANGED vars
  BY <1>0, <1>1, <1>7, Kept DEF vars
<1>8. QED
  BY <1>2, <1>3, <1>4, <1>5, <1>6, <1>7 DEF Next

(* A put that returned Ok keeps a mapping under its key that no later put  *)
(* replaced, its own original if no other put at the key overlapped it,    *)
(* with any number of puts, failures and kills, if temporary names differ. *)
THEOREM PutsAcknowledged ==
  ASSUME DistinctNames
  PROVE  Spec => []Acknowledged
<1>1. Init => AInv
  BY AInit
<1>2. AInv /\ [Next]_vars => AInv'
  BY AStep
<1>3. AInv => Acknowledged
  BY DEF AInv
<1>4. QED
  BY <1>1, <1>2, <1>3, PTL DEF Spec
=============================================================================
