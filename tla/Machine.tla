------------------------------ MODULE Machine -------------------------------
(***************************************************************************)
(* nucleus/vm.h: the life of a virtual machine in its host.  The host      *)
(* starts it with nu_vm_init, which asks the host for six blocks of memory *)
(* and the cartridge for the properties, and creates archetypes in it with *)
(* nu_vm_create_archetype.  The host may refuse any of the blocks and the  *)
(* cartridge may fail; a host that got an error may try again.  There is   *)
(* no call that gives a block back.                                        *)
(*                                                                         *)
(* nu_vm_tick and nu_vm_free change nothing.  Spawning an entity is a step *)
(* of the tables no call of the machine reaches yet.                       *)
(***************************************************************************)
EXTENDS Tables, FiniteSets

CONSTANTS
  PropertySets,     \* the properties a cartridge may load
  ArchetypeInfos,   \* the archetypes the host may create
  BlockLimit        \* the blocks the host can give in all

ASSUME MachineAssumption ==
  /\ BlockLimit \in Nat
  /\ \A p \in PropertySets :
       /\ {p.table_capacity, p.field_capacity, p.chunk_capacity, p.resource_capacity}
            \subseteq Nat \ {0}
       /\ p.chunk_capacity <= ChunkNone

(* The host hands over an array of fields with its length.                 *)
ASSUME InfosAssumption ==
  \A info \in ArchetypeInfos :
    /\ Len(info.fields) \in Nat
    /\ info.fields = [i \in 1..Len(info.fields) |-> info.fields[i]]
    /\ \A i \in 1..Len(info.fields) :
         DOMAIN info.fields[i] = {"name", "primitive", "archetype"}

VARIABLES
  vm,        \* what the host's handle points to
  given,     \* the blocks the host has given so far
  leaked,    \* those of them that belong to no machine
  reply,     \* what the last call returned
  entities   \* the entities spawned, with their archetype

vars == <<vm, given, leaked, reply, entities>>

NoMachine == [blocks |-> <<>>]

(* The requests of nu_vm_init in their order: the machine itself, the four *)
(* arrays of the tables, and the resources.                                *)
Requests == <<"core", "archetypes", "fields", "chunks", "data", "resources">>

Reply(error, archetype) == [error |-> error, archetype |-> archetype]

Init ==
  /\ vm = NoMachine
  /\ given = 0
  /\ leaked = {}
  /\ reply = Reply("NONE", NullArchetype)
  /\ entities = {}

-----------------------------------------------------------------------------
(* nu_vm_init.  The first blocks it asks for are granted.                  *)

Blocks(granted) == [i \in 1..granted |-> given + i]

(* An error leaves the handle alone, and the blocks to nobody.             *)
FailInit(granted, error) ==
  /\ given' = given + granted
  /\ leaked' = leaked \cup {given + i : i \in 1..granted}
  /\ reply' = Reply(error, NullArchetype)
  /\ UNCHANGED <<vm, entities>>

VmInitRefused(granted) ==
  /\ vm = NoMachine
  /\ given + granted <= BlockLimit
  /\ granted < Len(Requests)
  /\ FailInit(granted, "OUT_OF_MEMORY")

(* The properties are loaded with the machine's own block in hand.         *)
VmInitNotLoaded ==
  /\ vm = NoMachine
  /\ given + 1 <= BlockLimit
  /\ FailInit(1, "RESOURCE_NOT_FOUND")

VmInitDoneUnchecked(properties, granted) ==
  /\ vm = NoMachine
  /\ given + granted <= BlockLimit
  /\ granted \in (Len(Requests) - 1)..Len(Requests)
  /\ vm' = [blocks    |-> Blocks(granted),
            tables    |-> TablesInit(properties.table_capacity,
                                     properties.field_capacity,
                                     properties.chunk_capacity),
            resources |-> [capacity |-> properties.resource_capacity, count |-> 0]]
  /\ given' = given + granted
  /\ reply' = Reply("NONE", NullArchetype)
  /\ UNCHANGED <<leaked, entities>>

VmInitDone(properties, granted) ==
  /\ vm = NoMachine
  /\ given + granted <= BlockLimit
  /\ granted = Len(Requests)
  /\ vm' = [blocks    |-> Blocks(granted),
            tables    |-> TablesInit(properties.table_capacity,
                                     properties.field_capacity,
                                     properties.chunk_capacity),
            resources |-> [capacity |-> properties.resource_capacity, count |-> 0]]
  /\ given' = given + granted
  /\ reply' = Reply("NONE", NullArchetype)
  /\ UNCHANGED <<leaked, entities>>

-----------------------------------------------------------------------------
(* nu_vm_create_archetype.                                                 *)

CreateArchetype(info) ==
  /\ vm # NoMachine
  /\ HasRoomFor(vm.tables, info.fields)
  /\ vm' = [vm EXCEPT !.tables = ArchetypeCreate(@, info.name, info.fields)]
  /\ reply' = Reply("NONE", Len(vm.tables.archetypes) + 1)
  /\ UNCHANGED <<given, leaked, entities>>

RefuseArchetype(info) ==
  /\ vm # NoMachine
  /\ ~HasRoomFor(vm.tables, info.fields)
  /\ reply' = Reply("OUT_OF_MEMORY", NullArchetype)
  /\ UNCHANGED <<vm, given, leaked, entities>>

(* nu__spawn with the index of an archetype there is.  The place of the    *)
(* entity in its chunk is read from memory nothing has written: any word   *)
(* may be there, and the least and the greatest of them stand for all.     *)
SpawnEntity(index, place) ==
  /\ vm # NoMachine
  /\ index < Len(vm.tables.archetypes)
  /\ CanSpawn(vm.tables, index)
  /\ vm' = [vm EXCEPT !.tables = Spawn(@, index)]
  /\ entities' = entities \cup
       {[archetype |-> index + 1,
         entity |-> EntityBuild(ChunkFor(vm.tables, index), place)]}
  /\ UNCHANGED <<given, leaked, reply>>

Places == {0, WordMax}

VmInit ==
  \/ VmInitNotLoaded
  \/ \E granted \in 0..Len(Requests) :
       \/ VmInitRefused(granted)
       \/ \E properties \in PropertySets : VmInitDone(properties, granted)

Next ==
  \/ VmInit
  \/ \E info \in ArchetypeInfos : CreateArchetype(info) \/ RefuseArchetype(info)
  \/ \E index \in 0..WordMax, place \in Places : SpawnEntity(index, place)

Spec == Init /\ [][Next]_vars

-----------------------------------------------------------------------------
(* Properties.                                                             *)

Up == vm # NoMachine
manager == vm.tables

(* The arrays are within their capacities, and what they refer to each     *)
(* other by is there.                                                      *)
TypeOK ==
  /\ given \in 0..BlockLimit
  /\ leaked \subseteq 1..given
  /\ reply.archetype \in 0..(IF Up THEN Len(manager.archetypes) ELSE 0)
  /\ Up =>
       /\ Len(manager.archetypes) <= manager.archetype_capacity
       /\ Len(manager.fields) <= manager.field_capacity
       /\ manager.first_archetype \in 0..Len(manager.archetypes)
       /\ manager.free_chunk \in DOMAIN manager.chunks \cup {ChunkNone}
       /\ \A c \in DOMAIN manager.chunks :
            manager.chunks[c] \in [next: DOMAIN manager.chunks \cup {ChunkNone}, free: 0..ChunkNone]

(* A machine the host can reach has every block it asked for and shares    *)
(* none with an attempt that failed, wherever the attempt broke off; the   *)
(* host has no machine after a failure (vm.h:52-92, table.h:345-398).      *)
PublishedMachineIsWhole ==
  /\ Up => /\ DOMAIN vm.blocks = DOMAIN Requests
           /\ \A i, j \in DOMAIN vm.blocks : vm.blocks[i] = vm.blocks[j] => i = j
  /\ leaked = (1..given) \ ToSet(vm.blocks)
  /\ reply.error = "RESOURCE_NOT_FOUND" => ~Up

(* The lookups return what is in the table and no less: the newest         *)
(* archetype of a uid, and the first field of a uid among the archetype's  *)
(* own.  Field 0 cannot be told from none (table.h:240-272).  This is said *)
(* of names of any length: the uid asked for is that of the whole name, as *)
(* the archetype resolver computes it, the uid kept that of the cut one.   *)
WithUid(uid) == { a \in DOMAIN manager.archetypes : IdentUid(manager.archetypes[a].name) = uid }
Newest(S) == IF S = {} THEN NullArchetype ELSE CHOOSE a \in S : \A b \in S : b <= a

OwnFields(a) ==
  LET entry == manager.archetypes[a]
  IN  entry.first_field_offset..(entry.first_field_offset + entry.field_count - 1)
OwnWithUid(a, uid) == { i \in OwnFields(a) : IdentUid(manager.fields[i + 1].name) = uid }
First(S) == IF S = {} THEN NullField ELSE CHOOSE i \in S : \A j \in S : i <= j

UsedNames == { info.name : info \in ArchetypeInfos } \cup
  UNION { { info.fields[i].name : i \in DOMAIN info.fields } : info \in ArchetypeInfos }

LookupsAreExact ==
  Up => \A name \in UsedNames :
    /\ ArchetypeFind(manager, Hash(name)) = Newest(WithUid(Hash(name)))
    /\ \A a \in DOMAIN manager.archetypes :
         ArchetypeFindField(manager, a, Hash(name)) = First(OwnWithUid(a, Hash(name)))

(* The entries of an archetype fit a chunk with their entities and their   *)
(* indices behind them, and one more would not, as long as the size of an  *)
(* entry fits its word (table.h:142-176).                                  *)
FieldsOf(a) == SubSeq(manager.fields, manager.archetypes[a].first_field_offset + 1,
  manager.archetypes[a].first_field_offset + manager.archetypes[a].field_count)

ChunksFitTheirEntries ==
  Up => \A a \in DOMAIN manager.archetypes :
    LET size == FieldsSize(FieldsOf(a)) + 6
        capacity == manager.archetypes[a].capacity
    IN  FieldsSize(FieldsOf(a)) <= ChunkNone =>
          capacity * size <= ChunkSize /\ (capacity + 1) * size > ChunkSize

(* A chunk is free or holds the entity of one archetype: the list of free  *)
(* chunks leads through each of the chunks that were not taken, and to no  *)
(* other, so that no two entities are the same (table.h:308-343).          *)
FreeChunks ==
  LET met[n \in 0..Cardinality(DOMAIN manager.chunks)] ==
        IF n = 0 THEN manager.free_chunk
        ELSE IF met[n - 1] = ChunkNone THEN ChunkNone
        ELSE manager.chunks[met[n - 1]].next
  IN  met

ChunksAreTakenOnce ==
  Up => LET taken == { EntityChunk(e.entity) : e \in entities }
        IN  /\ { FreeChunks[n] : n \in DOMAIN FreeChunks }
                 = (DOMAIN manager.chunks \ taken) \cup {ChunkNone}
            /\ \A m, n \in DOMAIN FreeChunks :
                 FreeChunks[m] = FreeChunks[n] => m = n \/ FreeChunks[m] = ChunkNone
            /\ \A e, f \in entities :
                 EntityChunk(e.entity) = EntityChunk(f.entity) => e = f

(* The archetypes read back from the tables are those that were created,   *)
(* each with its own fields, and a refused creation or a spawned entity    *)
(* changes none of them (table.h:187-238).                                 *)
KeptOf(info) ==
  [name |-> IdentOf(info.name),
   fields |-> [i \in DOMAIN info.fields |-> FieldEntry(info.fields[i])]]

Store == INSTANCE ArchetypeStore
  WITH up <- Up, Kept <- KeptOf,
       store <- IF Up THEN [a \in DOMAIN manager.archetypes |->
                             [name |-> manager.archetypes[a].name, fields |-> FieldsOf(a)]]
                ELSE <<>>

ImplementsArchetypeStore == Store!Spec
=============================================================================
