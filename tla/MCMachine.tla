----------------------------- MODULE MCMachine ------------------------------
(* Names up to three characters, of which an identifier keeps two, and     *)
(* lists of fields around the sizes of a chunk and of a word.              *)
EXTENDS Machine

(* Two names with one hash, and a name cut to another name.                *)
MCHash(name) == IF name = <<"b">> THEN <<"a">> ELSE name

Field(name, primitive) == [name |-> name, primitive |-> primitive, archetype |-> 0]
Info(name, fields) == [name |-> name, fields |-> fields]

MCArchetypeInfos == {
  Info(<<"a">>, <<>>),
  Info(<<"b">>, <<Field(<<"a">>, "INT"), Field(<<"c">>, "VEC3")>>),
  Info(<<"a", "b", "c">>, <<Field(<<"a", "b", "d">>, "ENTITY")>>),
  Info(<<"a", "b">>, <<Field(<<"c">>, "QUAT"), Field(<<"a">>, "QUAT"),
                       Field(<<"c">>, "QUAT")>>),
  Info(<<"c">>, <<Field(<<"a">>, "QUAT"), Field(<<"b">>, "QUAT"),
                  Field(<<"a", "b">>, "QUAT"), Field(<<"a", "b", "c">>, "QUAT")>>)}

Properties(tables, fields, chunks) ==
  [table_capacity |-> tables, field_capacity |-> fields,
   chunk_capacity |-> chunks, resource_capacity |-> 1]

MCPropertySets == {Properties(3, 5, 3), Properties(2, 8, 1)}
=============================================================================
