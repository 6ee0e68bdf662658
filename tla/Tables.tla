------------------------------- MODULE Tables -------------------------------
(***************************************************************************)
(* nucleus/vm/table.h: the archetypes of a virtual machine, the fields of  *)
(* all of them in one array, and the chunks their entities are stored in.  *)
(* The operators take and return the record of the table manager; the      *)
(* machine calls them.  The counts of the manager are the lengths of its   *)
(* sequences, and an archetype is its index plus one, as in the code.      *)
(*                                                                         *)
(* A name is a sequence of characters.  An identifier is what nu_ident_t   *)
(* keeps of it, and its uid the hash of that.                              *)
(***************************************************************************)
EXTENDS Integers, Sequences, SequencesExt

CONSTANTS
  IdentMax,        \* NU_IDENT_MAX: 30 in the code
  ChunkSize,       \* NU_CHUNK_SIZE: 4096 in the code
  WordMax,         \* the greatest nu_u16_t: 65535 in the code
  Hash(_)          \* nu_fnv1a_hash_32 of a sequence of characters

ASSUME TablesAssumption == {IdentMax, ChunkSize, WordMax} \subseteq Nat \ {0}

NullArchetype == 0
NullField     == 0     \* NU_NULL
ChunkNone     == WordMax
Word(n)       == n % (WordMax + 1)

-----------------------------------------------------------------------------
(* Identifiers (nucleus/vm/string.h).                                      *)

(* nu_ident_set_str: a longer name is cut.                                 *)
IdentOf(name) == IF Len(name) <= IdentMax THEN name ELSE SubSeq(name, 1, IdentMax)
IdentUid(ident) == Hash(ident)

-----------------------------------------------------------------------------
(* The layout of a chunk: the values of its entries, field by field, their *)
(* entities of four bytes and their indices of two.                        *)

EntitySize == 4
IndexSize  == 2

FieldTypeSize(primitive) ==
  CASE primitive = "VEC3"   -> 12
    [] primitive = "QUAT"   -> 16
    [] primitive = "ENTITY" -> 8
    [] OTHER                -> 4

FieldsSize(fields) ==
  LET size[n \in 0..Len(fields)] ==
        IF n = 0 THEN 0 ELSE size[n - 1] + FieldTypeSize(fields[n].primitive)
  IN  size[Len(fields)]

(* The sum is cut to a word when it is returned.                           *)
EntrySize(fields) == Word(FieldsSize(fields))

EntryCapacityNoIndices(fields) == ChunkSize \div (EntrySize(fields) + EntitySize)

EntryCapacity(fields) == ChunkSize \div (EntrySize(fields) + EntitySize + IndexSize)

-----------------------------------------------------------------------------
(* nu__table_manager_init, its memory given.                               *)
TablesInit(archetype_capacity, field_capacity, chunk_capacity) ==
  [archetype_capacity |-> archetype_capacity,
   field_capacity     |-> field_capacity,
   archetypes         |-> <<>>,
   fields             |-> <<>>,
   first_archetype    |-> NullArchetype,
   free_chunk         |-> 0,
   chunks             |-> [c \in 0..(chunk_capacity - 1) |->
                             [next |-> IF c = chunk_capacity - 1
                                       THEN ChunkNone ELSE c + 1,
                              free |-> 0]]]

-----------------------------------------------------------------------------
(* nu__archetype_create.                                                   *)
HasRoomForOffByOne(m, fields) ==
  /\ Len(m.archetypes) <= m.archetype_capacity
  /\ Len(m.fields) + Len(fields) <= m.field_capacity

HasRoomFor(m, fields) ==
  /\ Len(m.archetypes) + 1 <= m.archetype_capacity
  /\ Len(m.fields) + Len(fields) <= m.field_capacity

ArchetypeEntryUnlinked(m, name, fields) ==
  [first_chunk        |-> ChunkNone,
   entry_size         |-> EntrySize(fields),
   capacity           |-> EntryCapacity(fields),
   first_field_offset |-> Len(m.fields),
   field_count        |-> Len(fields),
   next               |-> NullArchetype,
   name               |-> IdentOf(name)]

ArchetypeEntryWithoutOffset(m, name, fields) ==
  [first_chunk        |-> ChunkNone,
   entry_size         |-> EntrySize(fields),
   capacity           |-> EntryCapacity(fields),
   first_field_offset |-> 0,
   field_count        |-> Len(fields),
   next               |-> m.first_archetype,
   name               |-> IdentOf(name)]

ArchetypeEntry(m, name, fields) ==
  [first_chunk        |-> ChunkNone,
   entry_size         |-> EntrySize(fields),
   capacity           |-> EntryCapacity(fields),
   first_field_offset |-> Len(m.fields),
   field_count        |-> Len(fields),
   next               |-> m.first_archetype,
   name               |-> IdentOf(name)]

FieldEntry(field) == [field EXCEPT !.name = IdentOf(@)]

ArchetypeCreate(m, name, fields) ==
  [m EXCEPT !.fields = @ \o [i \in DOMAIN fields |-> FieldEntry(fields[i])],
            !.archetypes = Append(@, ArchetypeEntry(m, name, fields)),
            !.first_archetype = Len(m.archetypes) + 1]

-----------------------------------------------------------------------------
(* nu__archetype_find follows the list from the newest archetype on.       *)
ArchetypeFind(m, uid) ==
  LET find[a \in 0..Len(m.archetypes)] ==
        CASE a = NullArchetype -> NullArchetype
          [] a # NullArchetype /\ IdentUid(m.archetypes[a].name) = uid -> a
          [] OTHER -> find[m.archetypes[a].next]
  IN  find[m.first_archetype]

(* nu__archetype_find_field: the index of the field in the array of all,   *)
(* which for the first of them is NU_NULL, as when there is none.          *)
ArchetypeFindField(m, a, uid) ==
  LET begin == m.archetypes[a].first_field_offset
      end   == begin + m.archetypes[a].field_count
      find[i \in begin..end] ==
        CASE i = end -> NullField
          [] i < end /\ IdentUid(m.fields[i + 1].name) = uid -> i
          [] OTHER   -> find[i + 1]
  IN  find[begin]

-----------------------------------------------------------------------------
(* nu__archetype_find_chunk: the first chunk of a list with a free entry.  *)
FindChunk(m, first_chunk) ==
  LET find[c \in DOMAIN m.chunks \cup {ChunkNone}] ==
        CASE c = ChunkNone -> ChunkNone
          [] c # ChunkNone /\ m.chunks[c].free # 0 -> c
          [] OTHER -> find[m.chunks[c].next]
  IN  find[first_chunk]

(* nu__spawn takes the index of an archetype.  Nothing links the chunk it  *)
(* takes to the archetype, so that each entity has a chunk of its own.     *)
SpawnEntry(m, index) == m.archetypes[index + 1]

NeedsChunk(m, index) == FindChunk(m, SpawnEntry(m, index).first_chunk) = ChunkNone

ChunkFor(m, index) ==
  IF NeedsChunk(m, index) THEN m.free_chunk
  ELSE FindChunk(m, SpawnEntry(m, index).first_chunk)

(* NU_ASSERT(manager->free_chunk != NU_CHUNK_NONE)                         *)
CanSpawn(m, index) == NeedsChunk(m, index) => m.free_chunk # ChunkNone

SpawnKeepsChunkFree(m, index) ==
  [m EXCEPT !.chunks[ChunkFor(m, index)].free = Word(SpawnEntry(m, index).capacity - 1)]

Spawn(m, index) ==
  LET chunk == ChunkFor(m, index)
      free  == IF NeedsChunk(m, index) THEN SpawnEntry(m, index).capacity
               ELSE m.chunks[chunk].free
  IN  [m EXCEPT !.free_chunk = IF NeedsChunk(m, index) THEN m.chunks[chunk].next ELSE @,
                !.chunks[chunk].free = Word(free - 1)]

EntityBuild(chunk, index) == chunk * (WordMax + 1) + index + 1
EntityChunk(e) == (e - 1) \div (WordMax + 1)
=============================================================================
