---------------------------- MODULE Machine_proofs ----------------------------
(***************************************************************************)
(* A virtual machine is whole when its host can reach it, and it keeps the *)
(* archetypes that were created, for all properties of a cartridge, all    *)
(* archetypes, and however often and wherever the start of it fails.       *)
(* First, what the loops of the tables return, for tables of every size.   *)
(*                                                                         *)
(* The tables' arrays refer to each other by offsets.  What is inductive   *)
(* about them is that the fields of an archetype end within the array of   *)
(* all fields: so a creation, which writes behind that end, changes none   *)
(* of the archetypes there are.                                            *)
(***************************************************************************)
EXTENDS Machine, Walks, FiniteSetTheorems, SequenceTheorems, TLAPS

-----------------------------------------------------------------------------
(* The layout of a chunk.                                                  *)

FieldSize(fields, n) == FieldTypeSize(fields[n].primitive)

LEMMA FieldSizeType == \A fields, n : FieldSize(fields, n) \in Nat
BY DEF FieldSize, FieldTypeSize

(* The sum has the values of its loop.                                     *)
LEMMA FieldsSizeRuns ==
  ASSUME NEW fields, Len(fields) \in Nat
  PROVE  \E size \in [0..Len(fields) -> Nat] :
           /\ size[0] = 0
           /\ \A n \in 1..Len(fields) : size[n] = size[n - 1] + FieldSize(fields, n)
           /\ FieldsSize(fields) = size[Len(fields)]
<1> DEFINE N == Len(fields)
           D == 0..N
           Step(f, n) == IF n = 0 THEN 0 ELSE f[n - 1] + FieldTypeSize(fields[n].primitive)
           sum == CHOOSE f : f = [n \in D |-> Step(f, n)]
           step == [p \in (1..N) \X Nat |-> p[2] + FieldSize(fields, p[1])]
<1>1. FieldsSize(fields) = sum[N]
  BY DEF FieldsSize
<1>2. step \in [(1..N) \X Nat -> Nat]
  BY FieldSizeType
<1>3. PICK w \in [0..N -> Nat] : w[0] = 0 /\ \A i \in 1..N : w[i] = step[<<i, w[i - 1]>>]
  <2> DEFINE S == Nat
  <2> HIDE DEF step
  <2>1. 0 \in S /\ N \in Nat /\ step \in Steps(N, S)
    BY <1>2 DEF Steps
  <2> HIDE DEF N, S
  <2>2. \E w \in [0..N -> S] : IsRun(w, 0, step, N)
    BY <2>1, LoopRuns
  <2> QED BY <2>2 DEF S, IsRun
<1>4. \A i \in 1..N : w[i] = w[i - 1] + FieldSize(fields, i)
  <2> TAKE i \in 1..N
  <2>1. w[i - 1] \in Nat
    BY <1>3
  <2> QED BY <1>3, <2>1
<1>5. w = [n \in D |-> Step(w, n)]
  <2>1. ASSUME NEW n \in D PROVE w[n] = Step(w, n)
    <3>1. n = 0 \/ n \in 1..N
      OBVIOUS
    <3> QED BY <1>3, <1>4, <3>1 DEF FieldSize
  <2> HIDE DEF Step
  <2> QED BY <2>1
<1>6. sum = [n \in D |-> Step(sum, n)]
  BY <1>5, Zenon
<1>7. \A n \in 0..N : sum[n] = w[n]
  <2>1. \A n \in D : sum[n] = Step(sum, n) /\ w[n] = Step(w, n)
    <3> HIDE DEF sum
    <3> QED BY <1>5, <1>6
  <2> HIDE DEF sum
  <2>2. sum[0] = w[0]
    BY <2>1
  <2>3. \A n \in 0..(N - 1) : sum[n] = w[n] => sum[n + 1] = w[n + 1]
    <3> TAKE n \in 0..(N - 1)
    <3> HAVE sum[n] = w[n]
    <3>1. n + 1 \in D /\ n + 1 # 0 /\ (n + 1) - 1 = n
      OBVIOUS
    <3>2. Step(sum, n + 1) = Step(w, n + 1)
      BY <3>1
    <3> HIDE DEF Step
    <3> QED BY <2>1, <3>1, <3>2
  <2>4. 0 \in Int /\ N \in Nat /\ N \in Int
    OBVIOUS
  <2> HIDE DEF N, D, Step
  <2>5. StartAlike(sum, w, 0, N) /\ StepAlike(sum, w, 0, N)
    BY <2>2, <2>3 DEF StartAlike, StepAlike
  <2>6. Agree(sum, w, 0, N)
    BY <2>4, <2>5, LoopsAgree
  <2> QED BY <2>6 DEF Agree
<1> HIDE DEF sum, step
<1>8. sum[N] = w[N]
  BY <1>7
<1> QED BY <1>1, <1>3, <1>4, <1>8

LEMMA FieldsSizeType ==
  ASSUME NEW fields, Len(fields) \in Nat
  PROVE  FieldsSize(fields) \in Nat /\ EntrySize(fields) \in 0..WordMax
<1>1. FieldsSize(fields) \in Nat
  BY FieldsSizeRuns
<1> QED BY <1>1, TablesAssumption DEF EntrySize, Word

(* The sum depends on the types of the fields alone.                       *)
LEMMA FieldsSizeAgrees ==
  ASSUME NEW fields, NEW others, Len(fields) \in Nat, Len(others) = Len(fields),
         \A n \in 1..Len(fields) : fields[n].primitive = others[n].primitive
  PROVE  FieldsSize(fields) = FieldsSize(others)
<1> DEFINE N == Len(fields)
<1>1. PICK f \in [0..N -> Nat] : /\ f[0] = 0
                                 /\ \A n \in 1..N : f[n] = f[n - 1] + FieldSize(fields, n)
                                 /\ FieldsSize(fields) = f[N]
  BY FieldsSizeRuns
<1>2. PICK g \in [0..N -> Nat] : /\ g[0] = 0
                                 /\ \A n \in 1..N : g[n] = g[n - 1] + FieldSize(others, n)
                                 /\ FieldsSize(others) = g[N]
  BY FieldsSizeRuns
<1>3. \A n \in 1..N : FieldSize(fields, n) = FieldSize(others, n)
  BY DEF FieldSize
<1>4. \A n \in 0..(N - 1) : f[n] = g[n] => f[n + 1] = g[n + 1]
  <2> TAKE n \in 0..(N - 1)
  <2>1. n + 1 \in 1..N /\ (n + 1) - 1 = n
    OBVIOUS
  <2> QED BY <1>1, <1>2, <1>3, <2>1
<1>5. 0 \in Int /\ N \in Nat /\ N \in Int /\ f[0] = g[0]
  BY <1>1, <1>2
<1>6. \A n \in 0..N : f[n] = g[n]
  <2> HIDE DEF N
  <2>1. StartAlike(f, g, 0, N) /\ StepAlike(f, g, 0, N)
    BY <1>4, <1>5 DEF StartAlike, StepAlike
  <2>2. Agree(f, g, 0, N)
    BY <1>5, <2>1, LoopsAgree
  <2> QED BY <2>2 DEF Agree
<1>7. f[N] = g[N]
  BY <1>6
<1> QED BY <1>1, <1>2, <1>7

LEMMA Division ==
  ASSUME NEW a \in Nat, NEW b \in Nat \ {0}
  PROVE  /\ a \div b \in Nat
         /\ (a \div b) * b <= a
         /\ (a \div b + 1) * b > a
OBVIOUS

LEMMA EntryCapacityType ==
  ASSUME NEW fields, Len(fields) \in Nat
  PROVE  EntryCapacity(fields) \in Nat
<1>1. EntrySize(fields) + EntitySize + IndexSize \in Nat \ {0}
  BY FieldsSizeType DEF EntitySize, IndexSize
<1> QED BY <1>1, Division, TablesAssumption DEF EntryCapacity

(* As many entries as fit a chunk, and not one more.                       *)
LEMMA EntryCapacityExact ==
  ASSUME NEW fields, Len(fields) \in Nat, FieldsSize(fields) <= WordMax
  PROVE  /\ EntryCapacity(fields) * (FieldsSize(fields) + 6) <= ChunkSize
         /\ (EntryCapacity(fields) + 1) * (FieldsSize(fields) + 6) > ChunkSize
<1> DEFINE size == FieldsSize(fields) + 6
<1>1. FieldsSize(fields) \in Nat
  BY FieldsSizeType
<1>2. EntrySize(fields) = FieldsSize(fields)
  BY <1>1, TablesAssumption DEF EntrySize, Word
<1>3. size \in Nat \ {0} /\ EntrySize(fields) + EntitySize + IndexSize = size
  BY <1>1, <1>2 DEF EntitySize, IndexSize
<1>4. EntryCapacity(fields) = ChunkSize \div size
  BY <1>3 DEF EntryCapacity
<1> HIDE DEF size
<1>5. (ChunkSize \div size) * size <= ChunkSize /\ (ChunkSize \div size + 1) * size > ChunkSize
  BY <1>3, Division, TablesAssumption
<1> QED BY <1>4, <1>5 DEF size

(* The chunk of an entity can be read back from it.                        *)
LEMMA ChunkOfEntity ==
  ASSUME NEW chunk \in Nat, NEW place \in 0..WordMax
  PROVE  EntityChunk(EntityBuild(chunk, place)) = chunk
<1> DEFINE W == WordMax + 1
           a == chunk * W + place
           q == a \div W
<1>1. W \in Nat \ {0} /\ place \in Nat /\ place < W
  BY TablesAssumption
<1>2. EntityChunk(EntityBuild(chunk, place)) = q
  <2>1. EntityBuild(chunk, place) - 1 = a
    <3>1. chunk * W \in Nat
      BY <1>1
    <3> QED BY <1>1, <3>1 DEF EntityBuild
  <2> HIDE DEF a
  <2> QED BY <2>1 DEF EntityChunk
<1>3. a \in Nat
  BY <1>1
<1>4. q \in Nat /\ q * W <= a /\ (q + 1) * W > a
  <2> HIDE DEF a, W
  <2> QED BY <1>1, <1>3, Division
<1> HIDE DEF q
<1>5. ~(q < chunk)
  <2> SUFFICES ASSUME q < chunk PROVE FALSE
    OBVIOUS
  <2>1. (q + 1) * W <= chunk * W
    <3>1. q + 1 <= chunk
      BY <1>4
    <3> HIDE DEF W
    <3> QED BY <1>1, <1>4, <3>1
  <2> HIDE DEF W
  <2> QED BY <1>1, <1>4, <2>1
<1>6. ~(q > chunk)
  <2> SUFFICES ASSUME q > chunk PROVE FALSE
    OBVIOUS
  <2>1. (chunk + 1) * W <= q * W
    <3>1. chunk + 1 <= q
      BY <1>4
    <3> HIDE DEF W
    <3> QED BY <1>1, <1>4, <3>1
  <2> HIDE DEF W
  <2> QED BY <1>1, <1>4, <2>1
<1> QED BY <1>2, <1>4, <1>5, <1>6

-----------------------------------------------------------------------------
(* The searches.                                                           *)

(* The list of the archetypes leads from the newest to the oldest: the     *)
(* search of it returns the newest of a uid.                               *)
LEMMA ArchetypeFindExact ==
  ASSUME NEW m, NEW uid, NEW count \in Nat,
         Len(m.archetypes) = count, m.first_archetype = count,
         \A a \in 1..count : m.archetypes[a].next = a - 1,
         NEW T, T = { a \in 1..count : IdentUid(m.archetypes[a].name) = uid }
  PROVE  IsGreatest(ArchetypeFind(m, uid), T, NullArchetype)
<1> DEFINE D == 0..count
           Step(f, a) ==
             CASE a = NullArchetype -> NullArchetype
               [] a # NullArchetype /\ IdentUid(m.archetypes[a].name) = uid -> a
               [] OTHER -> f[m.archetypes[a].next]
           find == CHOOSE f : f = [a \in D |-> Step(f, a)]
<1>1. ArchetypeFind(m, uid) = find[count]
  BY DEF ArchetypeFind
<1>2. \A f : (\A a \in D : f[a] = Step(f, a)) <=> SearchesDown(f, count, T, NullArchetype)
  <2> TAKE f
  <2>1. ASSUME NEW a \in D
        PROVE  Step(f, a) = IF a = 0 THEN NullArchetype ELSE IF a \in T THEN a ELSE f[a - 1]
    <3>1. CASE a = 0
      BY <3>1 DEF NullArchetype
    <3>2. CASE a # 0
      <4>1. a \in 1..count /\ a # NullArchetype
        BY <3>2 DEF NullArchetype
      <4> QED BY <3>2, <4>1
    <3> QED BY <3>1, <3>2
  <2> HIDE DEF Step
  <2> QED BY <2>1 DEF SearchesDown
<1>3. T \in SUBSET (1..count)
  OBVIOUS
<1> HIDE DEF Step
<1>4. PICK w : w = [a \in D |-> w[a]] /\ SearchesDown(w, count, T, NullArchetype)
  BY <1>3, SearchDownExists
<1>5. w = [a \in D |-> Step(w, a)]
  BY <1>2, <1>4
<1>6. find = [a \in D |-> Step(find, a)]
  BY <1>5, Zenon
<1> HIDE DEF find
<1>7. SearchesDown(find, count, T, NullArchetype)
  BY <1>2, <1>6
<1>8. IsGreatest(find[count], T, NullArchetype)
  BY <1>3, <1>7, SearchDownExact
<1> QED BY <1>1, <1>8

(* The search among the fields of an archetype returns the first of a uid. *)
LEMMA ArchetypeFindFieldExact ==
  ASSUME NEW m, NEW a, NEW uid, NEW begin \in Nat, NEW count \in Nat,
         begin = m.archetypes[a].first_field_offset, count = m.archetypes[a].field_count,
         NEW T, T = { i \in begin..(begin + count - 1) : IdentUid(m.fields[i + 1].name) = uid }
  PROVE  IsLeast(ArchetypeFindField(m, a, uid), T, NullField)
<1> DEFINE end == begin + count
           D == begin..end
           Step(f, i) ==
             CASE i = end -> NullField
               [] i < end /\ IdentUid(m.fields[i + 1].name) = uid -> i
               [] OTHER   -> f[i + 1]
           find == CHOOSE f : f = [i \in D |-> Step(f, i)]
<1>1. ArchetypeFindField(m, a, uid) = find[begin]
  BY DEF ArchetypeFindField
<1>2. \A f : (\A i \in D : f[i] = Step(f, i)) <=> SearchesUp(f, begin, end, T, NullField)
  <2> TAKE f
  <2>1. ASSUME NEW i \in D
        PROVE  Step(f, i) = IF i = end THEN NullField ELSE IF i \in T THEN i ELSE f[i + 1]
    <3>1. CASE i = end
      BY <3>1
    <3>2. CASE i # end
      <4>1. i \in begin..(begin + count - 1) /\ i < end
        BY <3>2
      <4> QED BY <3>2, <4>1
    <3> QED BY <3>1, <3>2
  <2> HIDE DEF Step, end
  <2> QED BY <2>1 DEF SearchesUp
<1>3. T \in SUBSET (begin..(end - 1)) /\ begin \in Int /\ end \in Int /\ begin <= end
  OBVIOUS
<1> HIDE DEF Step, end
<1>4. PICK w : w = [i \in D |-> w[i]] /\ SearchesUp(w, begin, end, T, NullField)
  BY <1>3, SearchUpExists
<1>5. w = [i \in D |-> Step(w, i)]
  BY <1>2, <1>4
<1>6. find = [i \in D |-> Step(find, i)]
  BY <1>5, Zenon
<1> HIDE DEF find
<1>7. SearchesUp(find, begin, end, T, NullField)
  BY <1>2, <1>6
<1>8. IsLeast(find[begin], T, NullField)
  BY <1>3, <1>7, SearchUpExact
<1> QED BY <1>1, <1>8

(* The links of the chunks lead upwards: a list of them ends.              *)
Linked(m, chunks) ==
  /\ DOMAIN m.chunks = 0..(chunks - 1)
  /\ \A c \in 0..(chunks - 1) :
       m.chunks[c].next = IF c = chunks - 1 THEN ChunkNone ELSE c + 1

(* There is no free chunk in the empty list.                               *)
LEMMA FindChunkNone ==
  ASSUME NEW m, NEW chunks \in 1..ChunkNone, Linked(m, chunks)
  PROVE  FindChunk(m, ChunkNone) = ChunkNone
<1> DEFINE D == DOMAIN m.chunks \cup {ChunkNone}
           Step(f, c) ==
             CASE c = ChunkNone -> ChunkNone
               [] c # ChunkNone /\ m.chunks[c].free # 0 -> c
               [] OTHER -> f[m.chunks[c].next]
           find == CHOOSE f : f = [c \in D |-> Step(f, c)]
           T == { c \in 0..(chunks - 1) : m.chunks[c].free # 0 }
<1>1. FindChunk(m, ChunkNone) = find[ChunkNone]
  BY DEF FindChunk
<1>2. ChunkNone \in Nat /\ chunks \in Nat
  BY TablesAssumption DEF ChunkNone
<1>3. PICK w : SearchesUp(w, 0, chunks, T, ChunkNone)
  <2>1. T \in SUBSET (0..(chunks - 1)) /\ 0 \in Int /\ chunks \in Int
    BY <1>2
  <2> HIDE DEF T
  <2> QED BY <2>1, SearchUpExists
<1> DEFINE v == [c \in D |-> IF c = ChunkNone THEN ChunkNone ELSE w[c]]
<1>4. v = [c \in D |-> Step(v, c)]
  <2>1. ASSUME NEW c \in D PROVE v[c] = Step(v, c)
    <3>1. CASE c = ChunkNone
      BY <3>1
    <3>2. CASE c # ChunkNone
      <4>1. c \in 0..(chunks - 1) /\ c \in 0..chunks /\ c # chunks /\ chunks \in 0..chunks
        BY <1>2, <3>2 DEF Linked
      <4>2. v[c] = w[c] /\ w[c] = IF c \in T THEN c ELSE w[c + 1]
        <5> HIDE DEF T
        <5> QED BY <1>3, <3>2, <4>1 DEF SearchesUp
      <4>3. v[m.chunks[c].next] = w[c + 1]
        <5>1. CASE c = chunks - 1
          <6>1. m.chunks[c].next = ChunkNone
            BY <4>1, <5>1 DEF Linked
          <6>2. w[c + 1] = ChunkNone
            <7>1. c + 1 = chunks
              BY <1>2, <5>1
            <7> HIDE DEF T
            <7> QED BY <1>3, <4>1, <7>1 DEF SearchesUp
          <6> QED BY <6>1, <6>2
        <5>2. CASE c # chunks - 1
          <6>1. m.chunks[c].next = c + 1 /\ c + 1 \in 0..(chunks - 1) /\ c + 1 # ChunkNone
            BY <1>2, <4>1, <5>2 DEF Linked
          <6> QED BY <6>1 DEF Linked
        <5> QED BY <5>1, <5>2
      <4> HIDE DEF v
      <4> QED BY <3>2, <4>1, <4>2, <4>3
    <3> QED BY <3>1, <3>2
  <2> HIDE DEF Step
  <2> QED BY <2>1
<1>5. find = [c \in D |-> Step(find, c)]
  BY <1>4, Zenon
<1> HIDE DEF find
<1>6. find[ChunkNone] = Step(find, ChunkNone)
  BY <1>5
<1> QED BY <1>1, <1>6


(* The machine the host holds has the code's structures.                   *)
Parts == {"archetype_capacity", "field_capacity", "archetypes", "fields", "first_archetype",
          "free_chunk", "chunks"}

Structured ==
  /\ {"blocks", "tables"} \subseteq DOMAIN vm
  /\ Parts \subseteq DOMAIN manager

KeptFields ==
  { FieldEntry(field) : field \in
      UNION { { info.fields[i] : i \in DOMAIN info.fields } : info \in ArchetypeInfos } }

Entries ==
  [first_chunk: {ChunkNone}, next: Nat, first_field_offset: Nat, field_count: Nat,
   entry_size: { EntrySize(info.fields) : info \in ArchetypeInfos },
   capacity: { EntryCapacity(info.fields) : info \in ArchetypeInfos },
   name: { IdentOf(info.name) : info \in ArchetypeInfos }]

(* The fields of an archetype end within the fields of all.                *)
Owned ==
  \A a \in DOMAIN manager.archetypes :
    manager.archetypes[a].first_field_offset + manager.archetypes[a].field_count
      <= Len(manager.fields)

TablesInv ==
  /\ manager.archetypes \in Seq(Entries)
  /\ manager.fields \in Seq(KeptFields)
  /\ manager.first_archetype \in Nat
  /\ Owned

Inv ==
  /\ given \in Nat
  /\ PublishedMachineIsWhole
  /\ Up => Structured /\ TablesInv

-----------------------------------------------------------------------------
(* Sequences.                                                              *)

LEMMA FunctionIsSequence ==
  ASSUME NEW S, NEW n \in Nat, NEW f \in [1..n -> S]
  PROVE  f \in Seq(S) /\ Len(f) = n
<1>1. f \in Seq(S)
  BY SeqDef, Zenon
<1> QED BY <1>1

LEMMA FieldsAreSequences ==
  ASSUME NEW info \in ArchetypeInfos
  PROVE  /\ info.fields \in Seq({ info.fields[i] : i \in DOMAIN info.fields })
         /\ [i \in DOMAIN info.fields |-> FieldEntry(info.fields[i])] \in Seq(KeptFields)
         /\ Len([i \in DOMAIN info.fields |-> FieldEntry(info.fields[i])]) = Len(info.fields)
<1> DEFINE n == Len(info.fields)
           kept == [i \in DOMAIN info.fields |-> FieldEntry(info.fields[i])]
<1>1. n \in Nat /\ info.fields = [i \in 1..n |-> info.fields[i]]
  BY InfosAssumption
<1>2. DOMAIN info.fields = 1..n
  BY <1>1
<1>3. info.fields \in [1..n -> { info.fields[i] : i \in DOMAIN info.fields }]
  BY <1>1, <1>2
<1>4. kept \in [1..n -> KeptFields]
  BY <1>2 DEF KeptFields
<1>5. /\ info.fields \in Seq({ info.fields[i] : i \in DOMAIN info.fields })
      /\ kept \in Seq(KeptFields)
  BY <1>1, <1>3, <1>4, FunctionIsSequence
<1>6. Len(kept) = n
  BY <1>1, <1>4, FunctionIsSequence
<1> QED BY <1>5, <1>6

(* What is written behind the end of a part leaves the part alone.         *)
LEMMA SubSeqOfPrefix ==
  ASSUME NEW S, NEW s \in Seq(S), NEW t \in Seq(S),
         NEW from \in Nat, NEW count \in Nat, from + count <= Len(s)
  PROVE  SubSeq(s \o t, from + 1, from + count) = SubSeq(s, from + 1, from + count)
<1>1. CASE count = 0
  BY <1>1, SubSeqEmpty
<1>2. CASE count # 0
  <2>1. from + 1 \in 1..Len(s) /\ from + count \in 1..Len(s)
    BY <1>2
  <2> QED BY <2>1, SubSeqOfConcat1
<1> QED BY <1>1, <1>2

LEMMA SubSeqOfSuffix ==
  ASSUME NEW S, NEW s \in Seq(S), NEW t \in Seq(S)
  PROVE  SubSeq(s \o t, Len(s) + 1, Len(s) + Len(t)) = t
<1>1. CASE Len(t) = 0
  <2>1. t = <<>>
    BY <1>1, EmptySeq
  <2> QED BY <1>1, <2>1, SubSeqEmpty
<1>2. CASE Len(t) # 0
  <2>1. /\ Len(s) + 1 \in Len(s) + 1..Len(s) + Len(t)
        /\ Len(s) + Len(t) \in Len(s) + 1..Len(s) + Len(t)
    BY <1>2
  <2>2. SubSeq(s \o t, Len(s) + 1, Len(s) + Len(t)) = SubSeq(t, 1, Len(t))
    BY <2>1, SubSeqOfConcat2
  <2> QED BY <2>2, SubSeqFull
<1> QED BY <1>1, <1>2

-----------------------------------------------------------------------------
(* The start of a machine.                                                 *)

LEMMA InitInv == Init => Inv
<1> SUFFICES ASSUME Init PROVE Inv
  OBVIOUS
<1>1. ~Up /\ given = 0 /\ leaked = {} /\ vm.blocks = <<>>
  BY DEF Init, Up, NoMachine
<1>2. ToSet(vm.blocks) = {}
  BY <1>1 DEF ToSet
<1> QED BY <1>1, <1>2 DEF Init, Inv, PublishedMachineIsWhole, Reply

LEMMA FailInitInv ==
  ASSUME Inv, vm = NoMachine, NEW granted \in Nat, NEW code, FailInit(granted, code)
  PROVE  Inv'
<1>1. ~Up /\ ~Up' /\ vm'.blocks = <<>> /\ vm.blocks = <<>>
  BY DEF FailInit, Up, NoMachine
<1>2. ToSet(vm.blocks) = {} /\ ToSet(vm'.blocks) = {}
  BY <1>1 DEF ToSet
<1>3. given \in Nat /\ leaked = 1..given
  BY <1>2 DEF Inv, PublishedMachineIsWhole
<1>4. leaked' = 1..given' /\ given' \in Nat
  <2>1. given' = given + granted /\ leaked' = leaked \cup { given + i : i \in 1..granted }
    BY DEF FailInit
  <2>2. { given + i : i \in 1..granted } = (given + 1)..(given + granted)
    <3>1. ASSUME NEW b \in (given + 1)..(given + granted)
          PROVE  b - given \in 1..granted /\ b = given + (b - given)
      BY <1>3
    <3> QED BY <1>3, <3>1
  <2> QED BY <1>3, <2>1, <2>2
<1> QED BY <1>1, <1>2, <1>4 DEF Inv, PublishedMachineIsWhole

LEMMA VmInitDoneInv ==
  ASSUME Inv, NEW properties, NEW granted, VmInitDone(properties, granted)
  PROVE  Inv'
<1>1. granted = 6 /\ Len(Requests) = 6 /\ DOMAIN Requests = 1..6
  BY DEF VmInitDone, Requests
<1>2. vm.blocks = <<>> /\ ToSet(vm.blocks) = {}
  BY DEF VmInitDone, NoMachine, ToSet
<1>3. given \in Nat /\ leaked = 1..given
  BY <1>2 DEF Inv, PublishedMachineIsWhole
<1>4. vm'.blocks = [i \in 1..6 |-> given + i]
  BY <1>1 DEF VmInitDone, Blocks
<1>5. ToSet(vm'.blocks) = (given + 1)..(given + 6)
  BY <1>3, <1>4 DEF ToSet
<1>6. PublishedMachineIsWhole' /\ given' \in Nat
  <2>1. given' = given + 6 /\ leaked' = leaked /\ reply'.error = "NONE"
    BY <1>1 DEF VmInitDone, Reply
  <2>2. leaked' = (1..given') \ ToSet(vm'.blocks)
    BY <1>3, <1>5, <2>1
  <2> QED BY <1>1, <1>3, <1>4, <2>1, <2>2 DEF PublishedMachineIsWhole
<1>7. Structured'
  BY DEF VmInitDone, TablesInit, Structured, Parts, manager
<1>8. TablesInv'
  <2>1. /\ manager'.archetypes = <<>> /\ manager'.fields = <<>>
        /\ manager'.first_archetype = 0
    BY DEF VmInitDone, TablesInit, manager, NullArchetype
  <2>2. <<>> \in Seq(Entries) /\ <<>> \in Seq(KeptFields) /\ DOMAIN <<>> = {}
    BY EmptySeq
  <2> QED BY <2>1, <2>2 DEF TablesInv, Owned
<1> QED BY <1>6, <1>7, <1>8 DEF Inv

-----------------------------------------------------------------------------
(* The calls on a machine that is up.                                      *)

(* A call that changes some of the tables leaves the rest of the machine.  *)
LEMMA TablesChange ==
  ASSUME Inv, Up, NEW tables, vm' = [vm EXCEPT !.tables = tables]
  PROVE  /\ manager' = tables
         /\ vm'.blocks = vm.blocks
         /\ Up'
         /\ Parts \subseteq DOMAIN tables => Structured'
<1>1. {"blocks", "tables"} \subseteq DOMAIN vm
  BY DEF Inv, Structured
<1>2. vm'.blocks = vm.blocks /\ vm'.tables = tables /\ DOMAIN vm' = DOMAIN vm
  BY <1>1
<1>3. DOMAIN vm.blocks = DOMAIN Requests /\ DOMAIN Requests = 1..6
  BY DEF Inv, PublishedMachineIsWhole, Requests
<1>4. vm.blocks # <<>>
  <2>1. DOMAIN <<>> = {} /\ 1 \in 1..6
    OBVIOUS
  <2> QED BY <1>3, <2>1
<1> QED BY <1>1, <1>2, <1>4 DEF Up, NoMachine, manager, Structured

LEMMA WholeKept ==
  ASSUME Inv, Up, vm'.blocks = vm.blocks, Up', UNCHANGED <<given, leaked>>,
         reply'.error # "RESOURCE_NOT_FOUND"
  PROVE  PublishedMachineIsWhole' /\ given' \in Nat
<1>1. ToSet(vm'.blocks) = ToSet(vm.blocks)
  BY DEF ToSet
<1> QED BY <1>1 DEF Inv, PublishedMachineIsWhole

(* What nu__archetype_create does to the two arrays.                       *)
Kept(info) == [i \in DOMAIN info.fields |-> FieldEntry(info.fields[i])]
Entry(info) == ArchetypeEntry(manager, info.name, info.fields)

LEMMA CreatedTables ==
  ASSUME Inv, NEW info \in ArchetypeInfos, CreateArchetype(info)
  PROVE  /\ Up /\ Up' /\ Structured' /\ vm'.blocks = vm.blocks
         /\ manager'.archetypes = Append(manager.archetypes, Entry(info))
         /\ manager'.fields = manager.fields \o Kept(info)
         /\ manager'.first_archetype = Len(manager.archetypes) + 1
         /\ manager'.archetype_capacity = manager.archetype_capacity
         /\ manager'.field_capacity = manager.field_capacity
         /\ manager'.free_chunk = manager.free_chunk /\ manager'.chunks = manager.chunks
<1> DEFINE tables == ArchetypeCreate(manager, info.name, info.fields)
<1>1. Up /\ vm' = [vm EXCEPT !.tables = tables]
  BY DEF CreateArchetype, Up, manager
<1>2. Parts \subseteq DOMAIN manager
  BY <1>1 DEF Inv, Structured
<1>3. tables = [manager EXCEPT !.fields = manager.fields \o Kept(info),
                               !.archetypes = Append(manager.archetypes, Entry(info)),
                               !.first_archetype = Len(manager.archetypes) + 1]
  BY DEF ArchetypeCreate, Kept, Entry
<1>4. /\ DOMAIN tables = DOMAIN manager
      /\ tables.archetypes = Append(manager.archetypes, Entry(info))
      /\ tables.fields = manager.fields \o Kept(info)
      /\ tables.first_archetype = Len(manager.archetypes) + 1
      /\ tables.archetype_capacity = manager.archetype_capacity
      /\ tables.field_capacity = manager.field_capacity
      /\ tables.free_chunk = manager.free_chunk /\ tables.chunks = manager.chunks
  <2> HIDE DEF tables
  <2> QED BY <1>2, <1>3 DEF Parts
<1> HIDE DEF tables
<1> QED BY <1>1, <1>2, <1>4, TablesChange

LEMMA EntryType ==
  ASSUME TablesInv, NEW info \in ArchetypeInfos
  PROVE  /\ Entry(info) \in Entries
         /\ Entry(info).first_field_offset = Len(manager.fields)
         /\ Entry(info).field_count = Len(info.fields)
         /\ Entry(info).name = IdentOf(info.name)
<1>1. Len(info.fields) \in Nat /\ Len(manager.fields) \in Nat
  BY InfosAssumption DEF TablesInv
<1> QED BY <1>1 DEF TablesInv, Entry, ArchetypeEntry, Entries

LEMMA CreateArchetypeInv ==
  ASSUME Inv, NEW info \in ArchetypeInfos, CreateArchetype(info)
  PROVE  Inv'
<1>1. /\ Up /\ Up' /\ Structured' /\ vm'.blocks = vm.blocks
      /\ manager'.archetypes = Append(manager.archetypes, Entry(info))
      /\ manager'.fields = manager.fields \o Kept(info)
      /\ manager'.first_archetype = Len(manager.archetypes) + 1
  BY CreatedTables
<1>2. PublishedMachineIsWhole' /\ given' \in Nat
  BY <1>1, WholeKept DEF CreateArchetype, Reply
<1>3. TablesInv
  BY <1>1 DEF Inv
<1>4. Kept(info) \in Seq(KeptFields) /\ Len(Kept(info)) = Len(info.fields)
  BY FieldsAreSequences DEF Kept
<1>5. /\ manager'.fields \in Seq(KeptFields)
      /\ Len(manager'.fields) = Len(manager.fields) + Len(info.fields)
  <2>1. manager.fields \in Seq(KeptFields)
    BY <1>3 DEF TablesInv
  <2>2. /\ manager.fields \o Kept(info) \in Seq(KeptFields)
        /\ Len(manager.fields \o Kept(info)) = Len(manager.fields) + Len(Kept(info))
    BY <1>4, <2>1, ConcatProperties
  <2> QED BY <1>1, <1>4, <2>2
<1>6. /\ manager'.archetypes \in Seq(Entries)
      /\ Len(manager'.archetypes) = Len(manager.archetypes) + 1
      /\ \A a \in 1..Len(manager.archetypes) : manager'.archetypes[a] = manager.archetypes[a]
      /\ manager'.archetypes[Len(manager.archetypes) + 1] = Entry(info)
  BY <1>1, <1>3, EntryType, AppendProperties DEF TablesInv
<1>7. Owned'
  <2> DEFINE old == Len(manager.fields)
             new == Len(manager'.fields)
             count == Len(manager.archetypes)
             End(entry) == entry.first_field_offset + entry.field_count
  <2>1. /\ Len(info.fields) \in Nat /\ old \in Nat /\ count \in Nat
        /\ new = old + Len(info.fields)
    BY <1>3, <1>5, InfosAssumption DEF TablesInv
  <2>2. ASSUME NEW a \in 1..count
        PROVE  End(manager'.archetypes[a]) \in Int /\ End(manager'.archetypes[a]) <= old
    <3>1. manager.archetypes[a] \in Entries
      BY <1>3, ElementOfSeq DEF TablesInv
    <3>2. End(manager.archetypes[a]) \in Int
      BY <3>1 DEF Entries
    <3>3. End(manager.archetypes[a]) <= old
      BY <1>3 DEF TablesInv, Owned
    <3>4. manager'.archetypes[a] = manager.archetypes[a]
      BY <1>6
    <3> HIDE DEF End, old
    <3> QED BY <3>2, <3>3, <3>4
  <2>3. End(manager'.archetypes[count + 1]) = new
    <3>1. End(Entry(info)) = old + Len(info.fields)
      BY <1>3, EntryType
    <3> HIDE DEF End, old, new
    <3> QED BY <1>6, <2>1, <3>1
  <2>4. \A a \in 1..(count + 1) : End(manager'.archetypes[a]) <= new
    <3> HIDE DEF End, old, new, count
    <3>1. ASSUME NEW a \in 1..(count + 1)
          PROVE  End(manager'.archetypes[a]) <= new
      <4>1. CASE a = count + 1
        BY <2>1, <2>3, <4>1
      <4>2. CASE a \in 1..count
        <5> DEFINE e == End(manager'.archetypes[a])
        <5>1. e \in Int /\ e <= old
          BY <2>2, <4>2
        <5> HIDE DEF e
        <5>2. e <= new
          BY <2>1, <5>1
        <5> QED BY <5>2 DEF e
      <4> QED BY <2>1, <4>1, <4>2
    <3> QED BY <3>1
  <2> QED BY <1>6, <2>4 DEF Owned
<1>8. manager'.first_archetype \in Nat
  BY <1>1, <1>3 DEF TablesInv
<1> QED BY <1>1, <1>2, <1>5, <1>6, <1>7, <1>8 DEF Inv, TablesInv

LEMMA RefuseArchetypeInv ==
  ASSUME Inv, NEW info \in ArchetypeInfos, RefuseArchetype(info)
  PROVE  Inv'
<1>1. Up /\ Up' /\ vm' = vm /\ UNCHANGED <<given, leaked>> /\ reply'.error = "OUT_OF_MEMORY"
  BY DEF RefuseArchetype, Up, Reply
<1>2. PublishedMachineIsWhole' /\ given' \in Nat
  BY <1>1, WholeKept
<1> QED BY <1>1, <1>2 DEF Inv, Structured, TablesInv, Owned, manager

(* An entity changes the chunks alone.                                     *)
LEMMA SpawnedTables ==
  ASSUME Inv, NEW index, NEW place, SpawnEntity(index, place)
  PROVE  /\ Up /\ Up' /\ Structured' /\ vm'.blocks = vm.blocks
         /\ manager'.archetypes = manager.archetypes
         /\ manager'.fields = manager.fields
         /\ manager'.first_archetype = manager.first_archetype
         /\ manager'.archetype_capacity = manager.archetype_capacity
         /\ manager'.field_capacity = manager.field_capacity
         /\ manager' = Spawn(manager, index)
<1> DEFINE tables == Spawn(manager, index)
<1>1. Up /\ vm' = [vm EXCEPT !.tables = tables]
  BY DEF SpawnEntity, Up, manager
<1>2. Parts \subseteq DOMAIN manager
  BY <1>1 DEF Inv, Structured
<1>3. /\ DOMAIN tables = DOMAIN manager
      /\ tables.archetypes = manager.archetypes
      /\ tables.fields = manager.fields
      /\ tables.first_archetype = manager.first_archetype
      /\ tables.archetype_capacity = manager.archetype_capacity
      /\ tables.field_capacity = manager.field_capacity
  BY <1>2 DEF Spawn, Parts
<1>4. /\ Up' /\ vm'.blocks = vm.blocks /\ manager' = tables
      /\ Parts \subseteq DOMAIN tables => Structured'
  <2> HIDE DEF tables
  <2> QED BY <1>1, TablesChange
<1> QED BY <1>1, <1>2, <1>3, <1>4

LEMMA SpawnEntityInv ==
  ASSUME Inv, NEW index, NEW place, SpawnEntity(index, place)
  PROVE  Inv'
<1>1. /\ Up /\ Up' /\ Structured' /\ vm'.blocks = vm.blocks
      /\ manager'.archetypes = manager.archetypes
      /\ manager'.fields = manager.fields
      /\ manager'.first_archetype = manager.first_archetype
  BY SpawnedTables
<1>2. PublishedMachineIsWhole' /\ given' \in Nat
  <2>1. UNCHANGED <<given, leaked, reply>>
    BY DEF SpawnEntity
  <2>2. reply.error # "RESOURCE_NOT_FOUND"
    BY <1>1 DEF Inv, PublishedMachineIsWhole
  <2> QED BY <1>1, <2>1, <2>2, WholeKept
<1> QED BY <1>1, <1>2 DEF Inv, TablesInv, Owned

-----------------------------------------------------------------------------
(* The theorems.                                                           *)

(* The three facts of the induction together.                              *)
LEMMA InvInductive == Spec => []Inv
<1>1. Init => Inv
  BY InitInv
<1>2. Inv /\ [Next]_vars => Inv'
  <2> SUFFICES ASSUME Inv, [Next]_vars PROVE Inv'
    OBVIOUS
  <2>1. CASE VmInitNotLoaded
    BY <2>1, FailInitInv DEF VmInitNotLoaded
  <2>2. ASSUME NEW granted \in 0..Len(Requests), VmInitRefused(granted) PROVE Inv'
    <3>1. granted \in Nat
      BY DEF Requests
    <3> QED BY <2>2, <3>1, FailInitInv DEF VmInitRefused
  <2>3. ASSUME NEW granted, NEW properties, VmInitDone(properties, granted) PROVE Inv'
    BY <2>3, VmInitDoneInv
  <2>4. ASSUME NEW info \in ArchetypeInfos, CreateArchetype(info) PROVE Inv'
    BY <2>4, CreateArchetypeInv
  <2>5. ASSUME NEW info \in ArchetypeInfos, RefuseArchetype(info) PROVE Inv'
    BY <2>5, RefuseArchetypeInv
  <2>6. ASSUME NEW index, NEW place, SpawnEntity(index, place) PROVE Inv'
    BY <2>6, SpawnEntityInv
  <2>7. CASE UNCHANGED vars
    BY <2>7 DEF vars, Inv, Up, PublishedMachineIsWhole, Structured, TablesInv, Owned, manager, ToSet
  <2> QED BY <2>1, <2>2, <2>3, <2>4, <2>5, <2>6, <2>7 DEF Next, VmInit
<1> QED BY <1>1, <1>2, PTL DEF Spec

(* A machine the host can reach has the six blocks it asked for, no two    *)
(* the same and none of an attempt that failed, and the host has no        *)
(* machine after a cartridge that failed: for all properties, and however  *)
(* many attempts fail, each after any of its requests.                     *)
THEOREM WholeMachine == Spec => []PublishedMachineIsWhole
<1>1. Inv => PublishedMachineIsWhole
  BY DEF Inv
<1> QED BY <1>1, InvInductive, PTL

(* What the store holds of the machine, the refinement of Machine.         *)
KeptStore ==
  IF Up THEN [a \in DOMAIN manager.archetypes |->
                [name |-> manager.archetypes[a].name, fields |-> FieldsOf(a)]]
  ELSE <<>>

(* The fields of an archetype are what they were after the creation of     *)
(* another: they end where those of the new one begin.                     *)
LEMMA CreatedFields ==
  ASSUME Inv, NEW info \in ArchetypeInfos, CreateArchetype(info),
         NEW count \in Nat, count = Len(manager.archetypes)
  PROVE  /\ \A a \in 1..count : FieldsOf(a)' = FieldsOf(a)
         /\ FieldsOf(count + 1)' = Kept(info)
<1>1. /\ Up /\ Up'
      /\ manager'.archetypes = Append(manager.archetypes, Entry(info))
      /\ manager'.fields = manager.fields \o Kept(info)
  BY CreatedTables
<1>2. TablesInv
  BY <1>1 DEF Inv
<1>3. /\ DOMAIN manager.archetypes = 1..count
      /\ DOMAIN manager'.archetypes = 1..(count + 1)
      /\ \A a \in 1..count : manager'.archetypes[a] = manager.archetypes[a]
      /\ manager'.archetypes[count + 1] = Entry(info)
  BY <1>1, <1>2, EntryType, AppendProperties DEF TablesInv
<1>4. manager.fields \in Seq(KeptFields) /\ Kept(info) \in Seq(KeptFields)
  BY <1>2, FieldsAreSequences DEF TablesInv, Kept
<1>5. ASSUME NEW a \in 1..count
      PROVE  FieldsOf(a)' = FieldsOf(a)
  <2> DEFINE from == manager.archetypes[a].first_field_offset
             length == manager.archetypes[a].field_count
  <2>1. from \in Nat /\ length \in Nat
    <3>1. manager.archetypes[a] \in Entries
      BY <1>2, ElementOfSeq DEF TablesInv
    <3> QED BY <3>1 DEF Entries
  <2>2. from + length <= Len(manager.fields)
    BY <1>2, <1>3 DEF TablesInv, Owned
  <2>3. SubSeq(manager.fields \o Kept(info), from + 1, from + length)
          = SubSeq(manager.fields, from + 1, from + length)
    <3> DEFINE old == manager.fields
               new == Kept(info)
    <3>1. old \in Seq(KeptFields) /\ new \in Seq(KeptFields) /\ from + length <= Len(old)
      BY <1>4, <2>2
    <3> HIDE DEF from, length, old, new
    <3>2. SubSeq(old \o new, from + 1, from + length) = SubSeq(old, from + 1, from + length)
      BY <2>1, <3>1, SubSeqOfPrefix
    <3> QED BY <3>2 DEF old, new
  <2> QED BY <1>1, <1>3, <2>3 DEF FieldsOf
<1>6. FieldsOf(count + 1)' = Kept(info)
  <2>1. SubSeq(manager.fields \o Kept(info), Len(manager.fields) + 1,
               Len(manager.fields) + Len(Kept(info))) = Kept(info)
    BY <1>4, SubSeqOfSuffix
  <2>2. /\ Entry(info).first_field_offset = Len(manager.fields)
        /\ Entry(info).field_count = Len(Kept(info))
    BY <1>2, EntryType, FieldsAreSequences DEF Kept
  <2> QED BY <1>1, <1>3, <2>1, <2>2 DEF FieldsOf
<1> QED BY <1>5, <1>6

(* An archetype created is the last of the store, and those before it are  *)
(* what they were.                                                         *)
LEMMA CreateImplemented ==
  ASSUME Inv, NEW info \in ArchetypeInfos, CreateArchetype(info)
  PROVE  Up /\ Up' /\ KeptStore' = Append(KeptStore, KeptOf(info))
<1>1. /\ Up /\ Up'
      /\ manager'.archetypes = Append(manager.archetypes, Entry(info))
  BY CreatedTables
<1>2. TablesInv
  BY <1>1 DEF Inv
<1> PICK count \in Nat : count = Len(manager.archetypes)
  BY <1>2 DEF TablesInv
<1>3. /\ DOMAIN manager.archetypes = 1..count
      /\ DOMAIN manager'.archetypes = 1..(count + 1)
      /\ \A a \in 1..count : manager'.archetypes[a] = manager.archetypes[a]
      /\ manager'.archetypes[count + 1] = Entry(info)
  BY <1>1, <1>2, EntryType, AppendProperties DEF TablesInv
<1>5. /\ \A a \in 1..count : FieldsOf(a)' = FieldsOf(a)
      /\ FieldsOf(count + 1)' = Kept(info)
  BY CreatedFields
<1> DEFINE Stored(a) == [name |-> manager.archetypes[a].name, fields |-> FieldsOf(a)]
<1>7. KeptStore = [a \in 1..count |-> Stored(a)]
  BY <1>1, <1>3 DEF KeptStore
<1>8. KeptStore' = [a \in 1..(count + 1) |-> Stored(a)']
  BY <1>1, <1>3 DEF KeptStore
<1>9. Stored(count + 1)' = KeptOf(info)
  BY <1>2, <1>3, <1>5, EntryType DEF KeptOf, Kept
<1>10. \A a \in 1..count : Stored(a)' = Stored(a)
  BY <1>3, <1>5
<1>11. KeptStore \in Seq({ Stored(a) : a \in 1..count }) /\ Len(KeptStore) = count
  <2>1. KeptStore \in [1..count -> { Stored(a) : a \in 1..count }]
    BY <1>7
  <2> QED BY <2>1, FunctionIsSequence
<1> HIDE DEF Stored
<1> QED BY <1>1, <1>7, <1>8, <1>9, <1>10, <1>11

(* nu_vm_create_archetype either appends the archetype with its own fields *)
(* or changes none, an entity changes none, and a start that fails makes   *)
(* no machine: every behaviour of the machine is one of ArchetypeStore,    *)
(* for all archetypes and capacities.                                      *)
THEOREM StoreImplemented == Spec => ImplementsArchetypeStore
<1>1. Init => Store!Init
  BY DEF Init, Store!Init, Up
<1>2. Inv /\ [Next]_vars => [Store!Next]_(Store!vars)
  <2> SUFFICES ASSUME Inv, [Next]_vars PROVE Store!Next \/ UNCHANGED Store!vars
    OBVIOUS
  <2>0. (Up' = Up /\ KeptStore' = KeptStore) => UNCHANGED Store!vars
    BY DEF Store!vars, KeptStore
  <2>1. CASE vm' = vm
    BY <2>0, <2>1 DEF Up, KeptStore, FieldsOf, manager
  <2>2. ASSUME NEW granted, NEW properties, VmInitDone(properties, granted)
        PROVE  Store!Boot
    <3>1. ~Up
      BY <2>2 DEF VmInitDone, Up
    <3>2. Up' /\ manager'.archetypes = <<>>
      <4>1. DOMAIN vm' # DOMAIN vm
        BY <2>2 DEF VmInitDone, NoMachine
      <4> QED BY <2>2, <4>1 DEF VmInitDone, TablesInit, manager, Up
    <3>3. KeptStore = <<>> /\ KeptStore' = <<>>
      BY <3>1, <3>2 DEF KeptStore
    <3> QED BY <3>1, <3>2, <3>3 DEF Store!Boot, KeptStore
  <2>3. ASSUME NEW info \in ArchetypeInfos, CreateArchetype(info) PROVE Store!Create
    <3>1. Up /\ Up' /\ KeptStore' = Append(KeptStore, KeptOf(info))
      BY <2>3, CreateImplemented
    <3>2. \E i \in ArchetypeInfos : KeptStore' = Append(KeptStore, KeptOf(i))
      BY <3>1
    <3> QED BY <3>1, <3>2, Zenon DEF Store!Create, KeptStore
  <2>4. ASSUME NEW index, NEW place, SpawnEntity(index, place)
        PROVE  UNCHANGED Store!vars
    <3>1. /\ Up /\ Up' /\ manager'.archetypes = manager.archetypes
          /\ manager'.fields = manager.fields
      BY <2>4, SpawnedTables
    <3> QED BY <2>0, <3>1 DEF KeptStore, FieldsOf
  <2> QED BY <2>1, <2>2, <2>3, <2>4
       DEF Next, VmInit, VmInitNotLoaded, VmInitRefused, FailInit, RefuseArchetype, vars, Store!Next
<1> QED BY <1>1, <1>2, InvInductive, PTL DEF Spec, ImplementsArchetypeStore, Store!Spec

-----------------------------------------------------------------------------
(* What the searches and the chunks need: the archetypes are listed from   *)
(* the newest to the oldest, each with its own fields, and the chunks are  *)
(* taken from the first on.                                                *)

Created(a, info) ==
  /\ manager.archetypes[a].capacity = EntryCapacity(info.fields)
  /\ FieldsOf(a) = Kept(info)

Listed ==
  /\ manager.first_archetype = Len(manager.archetypes)
  /\ Len(manager.archetypes) <= manager.archetype_capacity
  /\ Len(manager.fields) <= manager.field_capacity
  /\ \A a \in 1..Len(manager.archetypes) :
       /\ manager.archetypes[a].next = a - 1
       /\ \E info \in ArchetypeInfos : Created(a, info)

EntityOf(c) == { e \in entities : EntityChunk(e.entity) = c }

TakenUpTo(chunks, taken) ==
  /\ manager.free_chunk = IF taken = chunks THEN ChunkNone ELSE taken
  /\ \A e \in entities : EntityChunk(e.entity) \in 0..(taken - 1)
  /\ \A c \in 0..(taken - 1) : \E e \in entities : EntityOf(c) = {e}

ChunkType(chunks) ==
  [next: 0..(chunks - 1) \cup {ChunkNone}, free: 0..ChunkNone]

ChunksInv ==
  \E chunks \in 1..ChunkNone, taken \in Nat :
    /\ taken <= chunks
    /\ Linked(manager, chunks)
    /\ \A c \in 0..(chunks - 1) : manager.chunks[c] \in ChunkType(chunks)
    /\ TakenUpTo(chunks, taken)

LayoutInv ==
  /\ given <= BlockLimit
  /\ reply.archetype \in 0..(IF Up THEN Len(manager.archetypes) ELSE 0)
  /\ ~Up => entities = {}
  /\ Up => Listed /\ ChunksInv

LEMMA InitLayout == Init => LayoutInv
<1> SUFFICES ASSUME Init PROVE LayoutInv
  OBVIOUS
<1>1. ~Up /\ given = 0 /\ reply.archetype = 0 /\ entities = {}
  BY DEF Init, Up, Reply, NullArchetype
<1> QED BY <1>1, MachineAssumption DEF LayoutInv

LEMMA FailInitLayout ==
  ASSUME LayoutInv, vm = NoMachine, NEW granted \in Nat, NEW code, FailInit(granted, code),
         given + granted <= BlockLimit
  PROVE  LayoutInv'
<1>1. ~Up /\ ~Up' /\ entities' = {} /\ given' <= BlockLimit /\ reply'.archetype = 0
  BY DEF FailInit, Up, Reply, NullArchetype, LayoutInv
<1> QED BY <1>1 DEF LayoutInv

LEMMA VmInitDoneLayout ==
  ASSUME LayoutInv, NEW properties \in PropertySets, NEW granted, VmInitDone(properties, granted)
  PROVE  LayoutInv'
<1> DEFINE chunks == properties.chunk_capacity
<1>1. ~Up /\ entities' = {}
  BY DEF VmInitDone, Up, LayoutInv
<1>2. /\ manager'.archetypes = <<>> /\ manager'.fields = <<>>
      /\ manager'.first_archetype = 0
      /\ manager'.archetype_capacity = properties.table_capacity
      /\ manager'.field_capacity = properties.field_capacity
      /\ manager'.free_chunk = 0
      /\ manager'.chunks = [c \in 0..(chunks - 1) |->
                              [next |-> IF c = chunks - 1 THEN ChunkNone ELSE c + 1,
                               free |-> 0]]
  BY DEF VmInitDone, TablesInit, manager, NullArchetype
<1>3. chunks \in 1..ChunkNone /\ properties.table_capacity \in Nat
      /\ properties.field_capacity \in Nat /\ ChunkNone \in Nat
  BY MachineAssumption, TablesAssumption DEF ChunkNone
<1>4. Listed'
  <2>1. Len(<<>>) = 0 /\ 1..0 = {}
    OBVIOUS
  <2> QED BY <1>2, <1>3, <2>1 DEF Listed
<1> HIDE DEF chunks
<1>5. ChunksInv'
  <2>1. Linked(manager, chunks)'
    BY <1>2 DEF Linked
  <2>2. \A c \in 0..(chunks - 1) : manager'.chunks[c] \in ChunkType(chunks)
    <3> TAKE c \in 0..(chunks - 1)
    <3>1. c # chunks - 1 => c + 1 \in 0..(chunks - 1)
      BY <1>3
    <3>2. 0 \in 0..ChunkNone
      BY <1>3
    <3> QED BY <1>2, <3>1, <3>2 DEF ChunkType
  <2>3. TakenUpTo(chunks, 0)'
    <3>1. 0..(0 - 1) = {} /\ 0 # chunks
      BY <1>3
    <3> QED BY <1>1, <1>2, <3>1 DEF TakenUpTo
  <2>4. 0 \in Nat /\ 0 <= chunks
    BY <1>3
  <2> QED BY <1>3, <2>1, <2>2, <2>3, <2>4 DEF ChunksInv
<1>6. given' <= BlockLimit /\ reply'.archetype = 0
  BY DEF VmInitDone, Reply, NullArchetype
<1>7. Up'
  <2>1. DOMAIN vm' # DOMAIN vm
    BY DEF VmInitDone, NoMachine
  <2> QED BY <2>1 DEF VmInitDone, Up
<1>8. Len(manager'.archetypes) = 0
  BY <1>2
<1> QED BY <1>4, <1>5, <1>6, <1>7, <1>8 DEF LayoutInv

LEMMA CreateArchetypeLayout ==
  ASSUME Inv, LayoutInv, NEW info \in ArchetypeInfos, CreateArchetype(info)
  PROVE  LayoutInv'
<1>1. /\ Up /\ Up'
      /\ manager'.archetypes = Append(manager.archetypes, Entry(info))
      /\ manager'.fields = manager.fields \o Kept(info)
      /\ manager'.first_archetype = Len(manager.archetypes) + 1
      /\ manager'.archetype_capacity = manager.archetype_capacity
      /\ manager'.field_capacity = manager.field_capacity
      /\ manager'.free_chunk = manager.free_chunk /\ manager'.chunks = manager.chunks
  BY CreatedTables
<1>2. TablesInv /\ Listed /\ ChunksInv
  BY <1>1 DEF Inv, LayoutInv
<1> PICK count \in Nat : count = Len(manager.archetypes)
  BY <1>2 DEF TablesInv
<1>3. /\ Len(manager'.archetypes) = count + 1
      /\ \A a \in 1..count : manager'.archetypes[a] = manager.archetypes[a]
      /\ manager'.archetypes[count + 1] = Entry(info)
  BY <1>1, <1>2, EntryType, AppendProperties DEF TablesInv
<1>4. Len(manager'.fields) = Len(manager.fields) + Len(info.fields)
  <2>1. manager.fields \in Seq(KeptFields) /\ Kept(info) \in Seq(KeptFields)
        /\ Len(Kept(info)) = Len(info.fields)
    BY <1>2, FieldsAreSequences DEF TablesInv, Kept
  <2>2. Len(manager.fields \o Kept(info)) = Len(manager.fields) + Len(Kept(info))
    BY <2>1, ConcatProperties
  <2> QED BY <1>1, <2>1, <2>2
<1>5. /\ \A a \in 1..count : FieldsOf(a)' = FieldsOf(a)
      /\ FieldsOf(count + 1)' = Kept(info)
  BY CreatedFields
<1>6. HasRoomFor(manager, info.fields)
  BY DEF CreateArchetype, manager
<1>7. Listed'
  <2>1. ASSUME NEW a \in 1..(count + 1)
        PROVE  manager'.archetypes[a].next = a - 1 /\ \E i \in ArchetypeInfos : Created(a, i)'
    <3>1. CASE a = count + 1
      <4>1. Entry(info).next = count /\ Entry(info).capacity = EntryCapacity(info.fields)
        BY <1>2 DEF Entry, ArchetypeEntry, Listed
      <4>2. Created(a, info)'
        BY <1>3, <1>5, <3>1, <4>1 DEF Created, Kept
      <4> QED BY <1>3, <3>1, <4>1, <4>2
    <3>2. CASE a # count + 1
      <4>1. a \in 1..count
        BY <3>2
      <4>2. PICK i \in ArchetypeInfos : Created(a, i)
        BY <1>2, <4>1 DEF Listed
      <4>3. Created(a, i)'
        BY <1>3, <1>5, <4>1, <4>2 DEF Created, Kept
      <4> QED BY <1>2, <1>3, <4>1, <4>3 DEF Listed
    <3> QED BY <3>1, <3>2
  <2>2. /\ Len(manager'.archetypes) <= manager'.archetype_capacity
        /\ Len(manager'.fields) <= manager'.field_capacity
    BY <1>1, <1>3, <1>4, <1>6 DEF HasRoomFor
  <2>3. manager'.first_archetype = Len(manager'.archetypes)
    BY <1>1, <1>3
  <2> QED BY <1>3, <2>1, <2>2, <2>3 DEF Listed
<1>8. UNCHANGED <<given, entities>> /\ reply'.archetype = count + 1
  BY DEF CreateArchetype, Reply, manager
<1>9. ChunksInv'
  BY <1>1, <1>2, <1>8 DEF ChunksInv, Linked, TakenUpTo, EntityOf
<1> QED BY <1>1, <1>3, <1>7, <1>8, <1>9 DEF LayoutInv

LEMMA RefuseArchetypeLayout ==
  ASSUME Inv, LayoutInv, NEW info \in ArchetypeInfos, RefuseArchetype(info)
  PROVE  LayoutInv'
<1>1. Up /\ UNCHANGED <<vm, given, entities>> /\ reply'.archetype = 0
  BY DEF RefuseArchetype, Up, Reply, NullArchetype
<1>2. Up' /\ manager' = manager /\ Listed /\ ChunksInv
  BY <1>1 DEF Up, manager, LayoutInv
<1>3. Listed'
  BY <1>2 DEF Listed, Created, FieldsOf, Kept
<1>4. ChunksInv'
  <2>1. PICK chunks \in 1..ChunkNone, taken \in Nat :
          /\ taken <= chunks
          /\ Linked(manager, chunks)
          /\ \A c \in 0..(chunks - 1) : manager.chunks[c] \in ChunkType(chunks)
          /\ TakenUpTo(chunks, taken)
    BY <1>2 DEF ChunksInv
  <2>2. Linked(manager', chunks) /\ TakenUpTo(chunks, taken)'
    BY <1>1, <1>2, <2>1 DEF TakenUpTo, EntityOf
  <2>3. \A c \in 0..(chunks - 1) : manager'.chunks[c] \in ChunkType(chunks)
    BY <1>2, <2>1
  <2> QED BY <2>1, <2>2, <2>3 DEF ChunksInv
<1>5. Len(manager.archetypes) \in Nat
  BY <1>1 DEF Inv, TablesInv
<1> QED BY <1>1, <1>2, <1>3, <1>4, <1>5 DEF LayoutInv

(* An entity takes the first of the chunks that are left, whatever place   *)
(* in it the memory had.                                                   *)
LEMMA SpawnEntityLayout ==
  ASSUME Inv, LayoutInv, NEW index \in 0..WordMax, NEW place \in Places,
         SpawnEntity(index, place)
  PROVE  LayoutInv'
<1>1. /\ Up /\ Up' /\ manager' = Spawn(manager, index)
      /\ manager'.archetypes = manager.archetypes
      /\ manager'.fields = manager.fields
      /\ manager'.first_archetype = manager.first_archetype
      /\ manager'.archetype_capacity = manager.archetype_capacity
      /\ manager'.field_capacity = manager.field_capacity
  BY SpawnedTables
<1>2. TablesInv /\ Listed /\ ChunksInv /\ Parts \subseteq DOMAIN manager
  BY <1>1 DEF Inv, LayoutInv, Structured
<1>3. PICK chunks \in 1..ChunkNone, taken \in Nat :
        /\ taken <= chunks
        /\ Linked(manager, chunks)
        /\ \A c \in 0..(chunks - 1) : manager.chunks[c] \in ChunkType(chunks)
        /\ TakenUpTo(chunks, taken)
  BY <1>2 DEF ChunksInv
<1>4. ChunkNone \in Nat /\ ChunkNone = WordMax
  BY TablesAssumption DEF ChunkNone
<1> DEFINE capacity == manager.archetypes[index + 1].capacity
<1>5. manager.archetypes[index + 1].first_chunk = ChunkNone /\ capacity \in Nat
  <2>1. index + 1 \in 1..Len(manager.archetypes)
    BY <1>2 DEF SpawnEntity, TablesInv, manager
  <2>2. manager.archetypes[index + 1] \in Entries
    BY <1>2, <2>1, ElementOfSeq DEF TablesInv
  <2>3. \A info \in ArchetypeInfos : EntryCapacity(info.fields) \in Nat
    BY EntryCapacityType, InfosAssumption
  <2> QED BY <2>2, <2>3 DEF Entries
<1>6. /\ NeedsChunk(manager, index) /\ ChunkFor(manager, index) = manager.free_chunk
      /\ manager.free_chunk # ChunkNone
  <2>1. FindChunk(manager, ChunkNone) = ChunkNone
    BY <1>3, FindChunkNone
  <2>2. NeedsChunk(manager, index)
    BY <1>5, <2>1 DEF NeedsChunk, SpawnEntry
  <2>3. CanSpawn(manager, index)
    BY DEF SpawnEntity, manager
  <2> QED BY <2>2, <2>3 DEF ChunkFor, CanSpawn
<1>7. manager.free_chunk = taken /\ taken < chunks /\ taken \in 0..(chunks - 1)
  BY <1>3, <1>4, <1>6 DEF TakenUpTo
<1> DEFINE free == Word(capacity - 1)
           chunk == manager.chunks[taken]
<1>8. free \in 0..ChunkNone
  <2>1. capacity - 1 \in Int /\ WordMax + 1 \in Nat \ {0}
    BY <1>5, TablesAssumption
  <2> HIDE DEF capacity
  <2> QED BY <1>4, <2>1 DEF Word
<1>9. chunk \in ChunkType(chunks) /\ chunk.next = IF taken = chunks - 1 THEN ChunkNone ELSE taken + 1
  BY <1>3, <1>7 DEF Linked
<1>10. /\ manager'.free_chunk = chunk.next
       /\ manager'.chunks = [manager.chunks EXCEPT ![taken] = [chunk EXCEPT !.free = free]]
  <2>1. manager' = [manager EXCEPT !.free_chunk = chunk.next,
                                   !.chunks[taken].free = free]
    BY <1>1, <1>6, <1>7 DEF Spawn, SpawnEntry
  <2> HIDE DEF free, capacity
  <2> QED BY <1>2, <2>1 DEF Parts
<1> HIDE DEF free, capacity
<1>11. Linked(manager', chunks) /\ \A c \in 0..(chunks - 1) : manager'.chunks[c] \in ChunkType(chunks)
  <2>1. DOMAIN manager'.chunks = 0..(chunks - 1)
    BY <1>3, <1>10 DEF Linked
  <2>2. \A c \in 0..(chunks - 1) : c # taken => manager'.chunks[c] = manager.chunks[c]
    BY <1>3, <1>10 DEF Linked
  <2>3. manager'.chunks[taken] = [chunk EXCEPT !.free = free]
    BY <1>3, <1>7, <1>10 DEF Linked
  <2>4. [chunk EXCEPT !.free = free] \in ChunkType(chunks)
        /\ [chunk EXCEPT !.free = free].next = chunk.next
    BY <1>8, <1>9 DEF ChunkType
  <2> QED BY <1>3, <2>1, <2>2, <2>3, <2>4 DEF Linked
<1> DEFINE new == [archetype |-> index + 1,
                   entity |-> EntityBuild(ChunkFor(manager, index), place)]
<1>12. entities' = entities \cup {new} /\ EntityChunk(new.entity) = taken
  <2>1. place \in 0..WordMax
    BY <1>4 DEF Places
  <2>2. EntityChunk(EntityBuild(taken, place)) = taken
    BY <2>1, ChunkOfEntity
  <2> QED BY <1>6, <1>7, <2>2 DEF SpawnEntity, manager
<1> HIDE DEF new
<1>13. TakenUpTo(chunks, taken + 1)'
  <2>1. manager'.free_chunk = IF taken + 1 = chunks THEN ChunkNone ELSE taken + 1
    BY <1>7, <1>9, <1>10
  <2>2. \A e \in entities' : EntityChunk(e.entity) \in 0..((taken + 1) - 1)
    <3>1. \A e \in entities : EntityChunk(e.entity) \in 0..((taken + 1) - 1)
      BY <1>3 DEF TakenUpTo
    <3>2. taken \in 0..((taken + 1) - 1)
      OBVIOUS
    <3> QED BY <1>12, <3>1, <3>2
  <2>3. ASSUME NEW c \in 0..((taken + 1) - 1)
        PROVE  \E e \in entities' : EntityOf(c)' = {e}
    <3>1. \A e \in entities : EntityChunk(e.entity) # taken
      BY <1>3 DEF TakenUpTo
    <3>2. CASE c = taken
      <4>1. EntityOf(c)' = {new}
        BY <1>12, <3>1, <3>2 DEF EntityOf
      <4> QED BY <1>12, <4>1
    <3>3. CASE c # taken
      <4>1. c \in 0..(taken - 1)
        BY <3>3
      <4>2. PICK e \in entities : EntityOf(c) = {e}
        BY <1>3, <4>1 DEF TakenUpTo
      <4>3. EntityOf(c)' = EntityOf(c)
        BY <1>12, <3>3 DEF EntityOf
      <4> QED BY <1>12, <4>2, <4>3
    <3> QED BY <3>2, <3>3
  <2> QED BY <2>1, <2>2, <2>3 DEF TakenUpTo
<1>14. ChunksInv'
  <2>1. taken + 1 \in Nat /\ taken + 1 <= chunks
    BY <1>7
  <2> QED BY <1>11, <1>13, <2>1 DEF ChunksInv
<1>15. Listed'
  BY <1>1, <1>2 DEF Listed, Created, FieldsOf, Kept
<1>16. UNCHANGED <<given, reply>>
  BY DEF SpawnEntity
<1> QED BY <1>1, <1>14, <1>15, <1>16 DEF LayoutInv

LEMMA LayoutInductive == Spec => [](Inv /\ LayoutInv)
<1>1. Init => LayoutInv
  BY InitLayout
<1>2. Inv /\ LayoutInv /\ [Next]_vars => LayoutInv'
  <2> SUFFICES ASSUME Inv, LayoutInv, [Next]_vars PROVE LayoutInv'
    OBVIOUS
  <2>1. CASE VmInitNotLoaded
    BY <2>1, FailInitLayout DEF VmInitNotLoaded
  <2>2. ASSUME NEW granted \in 0..Len(Requests), VmInitRefused(granted) PROVE LayoutInv'
    <3>1. granted \in Nat
      BY DEF Requests
    <3> QED BY <2>2, <3>1, FailInitLayout DEF VmInitRefused
  <2>3. ASSUME NEW granted, NEW properties \in PropertySets, VmInitDone(properties, granted)
        PROVE  LayoutInv'
    BY <2>3, VmInitDoneLayout
  <2>4. ASSUME NEW info \in ArchetypeInfos, CreateArchetype(info) PROVE LayoutInv'
    BY <2>4, CreateArchetypeLayout
  <2>5. ASSUME NEW info \in ArchetypeInfos, RefuseArchetype(info) PROVE LayoutInv'
    BY <2>5, RefuseArchetypeLayout
  <2>6. ASSUME NEW index \in 0..WordMax, NEW place \in Places, SpawnEntity(index, place)
        PROVE  LayoutInv'
    BY <2>6, SpawnEntityLayout
  <2>7. CASE UNCHANGED vars
    <3>1. UNCHANGED <<vm, given, reply, entities>> /\ manager' = manager
      BY <2>7 DEF vars, manager
    <3>2. Up' = Up /\ Listed' = Listed /\ ChunksInv' = ChunksInv
      BY <3>1 DEF Up, Listed, Created, FieldsOf, Kept, ChunksInv, Linked, TakenUpTo, EntityOf
    <3> QED BY <3>1, <3>2 DEF LayoutInv
  <2> QED BY <2>1, <2>2, <2>3, <2>4, <2>5, <2>6, <2>7 DEF Next, VmInit
<1> QED BY <1>1, <1>2, InvInductive, PTL DEF Spec

(* The arrays of a machine stay within their capacities and what they      *)
(* refer to each other by is there, for all capacities and archetypes.     *)
THEOREM TypeCorrect == Spec => []TypeOK
<1>1. ASSUME Inv, LayoutInv PROVE TypeOK
  <2>1. given \in 0..BlockLimit /\ leaked \subseteq 1..given
    BY <1>1, MachineAssumption DEF Inv, LayoutInv, PublishedMachineIsWhole
  <2>2. ASSUME Up
        PROVE  /\ Len(manager.archetypes) <= manager.archetype_capacity
               /\ Len(manager.fields) <= manager.field_capacity
               /\ manager.first_archetype \in 0..Len(manager.archetypes)
    BY <1>1, <2>2 DEF Inv, LayoutInv, TablesInv, Listed
  <2>3. ASSUME Up
        PROVE  /\ manager.free_chunk \in DOMAIN manager.chunks \cup {ChunkNone}
               /\ \A c \in DOMAIN manager.chunks :
                    manager.chunks[c]
                      \in [next: DOMAIN manager.chunks \cup {ChunkNone}, free: 0..ChunkNone]
    <3>1. PICK chunks \in 1..ChunkNone, taken \in Nat :
            /\ taken <= chunks
            /\ Linked(manager, chunks)
            /\ \A c \in 0..(chunks - 1) : manager.chunks[c] \in ChunkType(chunks)
            /\ TakenUpTo(chunks, taken)
      BY <1>1, <2>3 DEF LayoutInv, ChunksInv
    <3>2. DOMAIN manager.chunks = 0..(chunks - 1) /\ chunks \in Nat
      BY <3>1, TablesAssumption DEF Linked, ChunkNone
    <3>3. manager.free_chunk = IF taken = chunks THEN ChunkNone ELSE taken
      BY <3>1 DEF TakenUpTo
    <3> QED BY <3>1, <3>2, <3>3 DEF ChunkType
  <2> QED BY <1>1, <2>1, <2>2, <2>3 DEF TypeOK, LayoutInv
<1> QED BY <1>1, LayoutInductive, PTL

(* The newest and the first are the greatest and the least of a set.       *)
LEMMA NewestIsGreatest ==
  ASSUME NEW T \in SUBSET Nat, NEW a, IsGreatest(a, T, NullArchetype)
  PROVE  a = Newest(T)
<1>1. CASE T = {}
  BY <1>1 DEF IsGreatest, Newest
<1>2. CASE T # {}
  <2>1. a \in T /\ \A b \in T : b <= a
    BY <1>2 DEF IsGreatest
  <2>2. \A c \in T : (\A b \in T : b <= c) => c = a
    BY <2>1
  <2> QED BY <1>2, <2>1, <2>2 DEF Newest
<1> QED BY <1>1, <1>2

LEMMA FirstIsLeast ==
  ASSUME NEW T \in SUBSET Nat, NEW a, IsLeast(a, T, NullField)
  PROVE  a = First(T)
<1>1. CASE T = {}
  BY <1>1 DEF IsLeast, First
<1>2. CASE T # {}
  <2>1. a \in T /\ \A b \in T : a <= b
    BY <1>2 DEF IsLeast
  <2>2. \A c \in T : (\A b \in T : c <= b) => c = a
    BY <2>1
  <2> QED BY <1>2, <2>1, <2>2 DEF First
<1> QED BY <1>1, <1>2

(* nu__archetype_find returns the newest archetype of a uid and            *)
(* nu__archetype_find_field the first field of a uid among the archetype's *)
(* own, for all archetypes, names and hashes, colliding ones included.     *)
THEOREM ExactLookups == Spec => []LookupsAreExact
<1>1. ASSUME Inv, LayoutInv PROVE LookupsAreExact
  <2> SUFFICES ASSUME Up, NEW name \in UsedNames
               PROVE  /\ ArchetypeFind(manager, Hash(name)) = Newest(WithUid(Hash(name)))
                      /\ \A a \in DOMAIN manager.archetypes :
                           ArchetypeFindField(manager, a, Hash(name))
                             = First(OwnWithUid(a, Hash(name)))
    BY DEF LookupsAreExact
  <2> DEFINE uid == Hash(name)
  <2> HIDE DEF uid
  <2>1. TablesInv /\ Listed
    BY <1>1 DEF Inv, LayoutInv
  <2> PICK count \in Nat : count = Len(manager.archetypes)
    BY <2>1 DEF TablesInv
  <2>2. DOMAIN manager.archetypes = 1..count
    BY <2>1 DEF TablesInv
  <2>3. ArchetypeFind(manager, uid) = Newest(WithUid(uid))
    <3> DEFINE T == { a \in 1..count : IdentUid(manager.archetypes[a].name) = uid }
    <3>1. T = WithUid(uid) /\ T \in SUBSET Nat
      BY <2>2 DEF WithUid
    <3>2. IsGreatest(ArchetypeFind(manager, uid), T, NullArchetype)
      BY <2>1, ArchetypeFindExact DEF Listed
    <3> HIDE DEF T
    <3> QED BY <3>1, <3>2, NewestIsGreatest
  <2>4. ASSUME NEW a \in 1..count
        PROVE  ArchetypeFindField(manager, a, uid) = First(OwnWithUid(a, uid))
    <3> DEFINE begin == manager.archetypes[a].first_field_offset
               length == manager.archetypes[a].field_count
               T == { i \in begin..(begin + length - 1) : IdentUid(manager.fields[i + 1].name) = uid }
    <3>1. begin \in Nat /\ length \in Nat
      <4>1. manager.archetypes[a] \in Entries
        BY <2>1, ElementOfSeq DEF TablesInv
      <4> QED BY <4>1 DEF Entries
    <3>2. T = OwnWithUid(a, uid)
      BY DEF OwnWithUid, OwnFields
    <3>3. T \in SUBSET Nat
      BY <3>1
    <3>4. IsLeast(ArchetypeFindField(manager, a, uid), T, NullField)
      BY <3>1, ArchetypeFindFieldExact
    <3> HIDE DEF T
    <3> QED BY <3>2, <3>3, <3>4, FirstIsLeast
  <2> QED BY <2>2, <2>3, <2>4 DEF uid
<1> QED BY <1>1, LayoutInductive, PTL

(* The entries of an archetype, their entities and their indices fit a     *)
(* chunk, and one more would not, for all lists of fields and all sizes of *)
(* a chunk and of a word.                                                  *)
THEOREM EntriesFit == Spec => []ChunksFitTheirEntries
<1>1. ASSUME Inv, LayoutInv PROVE ChunksFitTheirEntries
  <2> SUFFICES ASSUME Up, NEW a \in DOMAIN manager.archetypes,
                      FieldsSize(FieldsOf(a)) <= ChunkNone
               PROVE  LET size == FieldsSize(FieldsOf(a)) + 6
                          capacity == manager.archetypes[a].capacity
                      IN  capacity * size <= ChunkSize /\ (capacity + 1) * size > ChunkSize
    BY DEF ChunksFitTheirEntries
  <2>1. TablesInv /\ Listed
    BY <1>1 DEF Inv, LayoutInv
  <2>2. a \in 1..Len(manager.archetypes)
    BY <2>1 DEF TablesInv
  <2>3. PICK info \in ArchetypeInfos : Created(a, info)
    BY <2>1, <2>2 DEF Listed
  <2>4. FieldsSize(FieldsOf(a)) = FieldsSize(info.fields)
    <3>1. DOMAIN info.fields = 1..Len(info.fields) /\ Len(info.fields) \in Nat
      BY InfosAssumption
    <3>2. Len(Kept(info)) = Len(info.fields)
      BY FieldsAreSequences DEF Kept
    <3>3. \A n \in 1..Len(info.fields) : info.fields[n].primitive = Kept(info)[n].primitive
      <4> TAKE n \in 1..Len(info.fields)
      <4>1. "primitive" \in DOMAIN info.fields[n]
        BY InfosAssumption
      <4>2. Kept(info)[n] = FieldEntry(info.fields[n])
        BY <3>1 DEF Kept
      <4> QED BY <4>1, <4>2 DEF FieldEntry
    <3>4. FieldsSize(info.fields) = FieldsSize(Kept(info))
      BY <3>1, <3>2, <3>3, FieldsSizeAgrees
    <3> QED BY <2>3, <3>4 DEF Created
  <2>5. /\ EntryCapacity(info.fields) * (FieldsSize(info.fields) + 6) <= ChunkSize
        /\ (EntryCapacity(info.fields) + 1) * (FieldsSize(info.fields) + 6) > ChunkSize
    BY <2>4, EntryCapacityExact, InfosAssumption DEF ChunkNone
  <2> QED BY <2>3, <2>4, <2>5 DEF Created
<1> QED BY <1>1, LayoutInductive, PTL

(* The walk of the free chunks meets those that were not taken, in order.  *)
LEMMA FreeChunksMeet ==
  ASSUME NEW chunks \in 1..ChunkNone, NEW taken \in Nat, taken <= chunks,
         Linked(manager, chunks), TakenUpTo(chunks, taken)
  PROVE  /\ DOMAIN FreeChunks = 0..chunks
         /\ \A n \in 0..chunks :
              FreeChunks[n] = IF taken + n < chunks THEN taken + n ELSE ChunkNone
<1> DEFINE D == 0..Cardinality(DOMAIN manager.chunks)
           Step(f, n) == IF n = 0 THEN manager.free_chunk
                         ELSE IF f[n - 1] = ChunkNone THEN ChunkNone
                         ELSE manager.chunks[f[n - 1]].next
           met == CHOOSE f : f = [n \in D |-> Step(f, n)]
           w == [n \in D |-> IF taken + n < chunks THEN taken + n ELSE ChunkNone]
<1>1. FreeChunks = met
  BY DEF FreeChunks
<1>2. chunks \in Nat /\ ChunkNone \in Nat /\ chunks <= ChunkNone
  BY TablesAssumption DEF ChunkNone
<1>3. D = 0..chunks
  <2>1. Cardinality(0..(chunks - 1)) = chunks
    BY <1>2, FS_Interval
  <2> QED BY <2>1 DEF Linked
<1> HIDE DEF D
<1>4. w = [n \in D |-> Step(w, n)]
  <2>1. ASSUME NEW n \in D PROVE w[n] = Step(w, n)
    <3>1. CASE n = 0
      BY <1>2, <3>1 DEF TakenUpTo
    <3>2. CASE n # 0
      <4>1. n - 1 \in D /\ n - 1 \in Nat /\ n \in Nat
        BY <1>2, <1>3, <3>2
      <4>2. CASE taken + (n - 1) < chunks
        <5>1. w[n - 1] = taken + (n - 1) /\ taken + (n - 1) \in 0..(chunks - 1)
              /\ taken + (n - 1) # ChunkNone
          BY <1>2, <4>1, <4>2
        <5>2. manager.chunks[w[n - 1]].next
                = IF taken + (n - 1) = chunks - 1 THEN ChunkNone ELSE taken + n
          BY <4>1, <5>1 DEF Linked
        <5>3. taken + (n - 1) = chunks - 1 <=> ~(taken + n < chunks)
          BY <1>2, <4>1, <4>2
        <5>4. w[n] = IF taken + n < chunks THEN taken + n ELSE ChunkNone
          OBVIOUS
        <5> HIDE DEF w
        <5> QED BY <3>2, <5>1, <5>2, <5>3, <5>4
      <4>3. CASE ~(taken + (n - 1) < chunks)
        <5>1. w[n - 1] = ChunkNone /\ w[n] = ChunkNone
          BY <1>2, <4>1, <4>3
        <5> HIDE DEF w
        <5> QED BY <3>2, <5>1
      <4> QED BY <4>2, <4>3
    <3> QED BY <3>1, <3>2
  <2> HIDE DEF Step
  <2> QED BY <2>1
<1>5. met = [n \in D |-> Step(met, n)]
  BY <1>4, Zenon
<1>6. DOMAIN met = D
  <2> HIDE DEF met
  <2> QED BY <1>5
<1>7. \A n \in 0..chunks : met[n] = w[n]
  <2>1. \A n \in D : met[n] = Step(met, n) /\ w[n] = Step(w, n)
    <3> HIDE DEF met, w
    <3> QED BY <1>4, <1>5
  <2> HIDE DEF met, w
  <2>2. StartAlike(met, w, 0, chunks)
    BY <1>2, <1>3, <2>1 DEF StartAlike
  <2>3. StepAlike(met, w, 0, chunks)
    <3> SUFFICES ASSUME NEW n \in 0..(chunks - 1), met[n] = w[n]
                 PROVE  met[n + 1] = w[n + 1]
      BY DEF StepAlike
    <3>1. n + 1 \in D /\ n + 1 # 0 /\ (n + 1) - 1 = n
      BY <1>2, <1>3
    <3>2. Step(met, n + 1) = Step(w, n + 1)
      BY <3>1
    <3> HIDE DEF Step
    <3> QED BY <2>1, <3>1, <3>2
  <2>4. 0 \in Int /\ chunks \in Int
    BY <1>2
  <2>5. Agree(met, w, 0, chunks)
    BY <2>2, <2>3, <2>4, LoopsAgree
  <2> QED BY <2>5 DEF Agree
<1> HIDE DEF met
<1> QED BY <1>1, <1>3, <1>6, <1>7

(* The list of the free chunks leads through each chunk that was not       *)
(* taken, once, and to no other, and no two entities have one chunk: for   *)
(* all numbers of chunks, archetypes and entities.                         *)
THEOREM TakenOnce == Spec => []ChunksAreTakenOnce
<1>1. ASSUME Inv, LayoutInv PROVE ChunksAreTakenOnce
  <2> SUFFICES ASSUME Up
               PROVE  LET taken == { EntityChunk(e.entity) : e \in entities }
                      IN  /\ { FreeChunks[n] : n \in DOMAIN FreeChunks }
                               = (DOMAIN manager.chunks \ taken) \cup {ChunkNone}
                          /\ \A m, n \in DOMAIN FreeChunks :
                               FreeChunks[m] = FreeChunks[n]
                                 => m = n \/ FreeChunks[m] = ChunkNone
                          /\ \A e, f \in entities :
                               EntityChunk(e.entity) = EntityChunk(f.entity) => e = f
    BY DEF ChunksAreTakenOnce
  <2>1. PICK chunks \in 1..ChunkNone, taken \in Nat :
          taken <= chunks /\ Linked(manager, chunks) /\ TakenUpTo(chunks, taken)
    BY <1>1 DEF LayoutInv, ChunksInv
  <2>2. chunks \in Nat /\ ChunkNone \in Nat /\ chunks <= ChunkNone
    BY TablesAssumption DEF ChunkNone
  <2>3. /\ DOMAIN FreeChunks = 0..chunks
        /\ \A n \in 0..chunks :
             FreeChunks[n] = IF taken + n < chunks THEN taken + n ELSE ChunkNone
    BY <2>1, FreeChunksMeet
  <2>4. { EntityChunk(e.entity) : e \in entities } = 0..(taken - 1)
    <3>1. \A e \in entities : EntityChunk(e.entity) \in 0..(taken - 1)
      BY <2>1 DEF TakenUpTo
    <3>2. \A c \in 0..(taken - 1) : \E e \in entities : EntityChunk(e.entity) = c
      BY <2>1 DEF TakenUpTo, EntityOf
    <3> QED BY <3>1, <3>2
  <2>5. { FreeChunks[n] : n \in 0..chunks } = ((0..(chunks - 1)) \ (0..(taken - 1))) \cup {ChunkNone}
    <3>1. \A n \in 0..chunks :
            FreeChunks[n] \in ((0..(chunks - 1)) \ (0..(taken - 1))) \cup {ChunkNone}
      BY <2>2, <2>3
    <3>2. FreeChunks[chunks] = ChunkNone /\ chunks \in 0..chunks
      BY <2>1, <2>2, <2>3
    <3>3. ASSUME NEW c \in (0..(chunks - 1)) \ (0..(taken - 1))
          PROVE  c - taken \in 0..chunks /\ FreeChunks[c - taken] = c
      <4>1. c - taken \in 0..chunks /\ taken + (c - taken) = c /\ c < chunks
        BY <2>2
      <4> QED BY <2>3, <4>1
    <3> QED BY <3>1, <3>2, <3>3
  <2>6. \A m, n \in 0..chunks :
          FreeChunks[m] = FreeChunks[n] => m = n \/ FreeChunks[m] = ChunkNone
    BY <2>2, <2>3
  <2>7. \A e, f \in entities : EntityChunk(e.entity) = EntityChunk(f.entity) => e = f
    <3> TAKE e, f \in entities
    <3> HAVE EntityChunk(e.entity) = EntityChunk(f.entity)
    <3>1. PICK g \in entities : EntityOf(EntityChunk(e.entity)) = {g}
      BY <2>1 DEF TakenUpTo
    <3>2. e \in {g} /\ f \in {g}
      BY <3>1 DEF EntityOf
    <3> QED BY <3>2
  <2> QED BY <2>1, <2>3, <2>4, <2>5, <2>6, <2>7 DEF Linked
<1> QED BY <1>1, LayoutInductive, PTL
=============================================================================
