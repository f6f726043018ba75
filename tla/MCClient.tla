------------------------------ MODULE MCClient ------------------------------
(* Four parts of the client's libraries that share no state, each checked by
   itself on its own small instance: part says which one runs. *)
EXTENDS RoomMembers, WebSocketRegistry, ByteBuffer, Codecs, TLC

CONSTANTS l1, l2, f1, f2

VARIABLES part

\* listeners: one wants everything, one has an opcode
MCWanted == l1 :> {f1, f2} @@ l2 :> {f2}

\* items of every type, with values and lengths at both ends of their ranges:
\* Base - 2, Base - 1 and Base for what a length byte holds
MCItem(type, width, signed, value) ==
  [type |-> type, width |-> width, signed |-> signed, value |-> value]
MCRow(n) == [i \in 1 .. n |-> i % Base]
MCItems ==
  {MCItem("number", 1, TRUE, <<-2>>), MCItem("number", 2, FALSE, <<15>>),
   MCItem("number", 8, TRUE, <<-3>>), MCItem("bytes", 3, FALSE, MCRow(3)),
   MCItem("string", 0, FALSE, MCRow(2)), MCItem("string", 0, FALSE, MCRow(3)),
   MCItem("array", 1, FALSE, MCRow(4)), MCItem("array", 2, TRUE, <<>>),
   MCItem("nullable", 1, FALSE, <<>>), MCItem("nullable", 1, FALSE, <<2>>),
   MCItem("sentinel", 2, FALSE, <<>>), MCItem("sentinel", 2, FALSE, <<7>>),
   MCItem("sentinel", 2, FALSE, <<0>>)}

Symmetry ==
  Permutations(Member) \cup Permutations(MemberCall) \cup Permutations(Title)

MCInit ==
  /\ part \in {"members", "registry", "buffer", "codecs"}
  /\ MembersInit /\ RegistryInit /\ CodecsInit /\ BufferInit
  /\ part # "buffer" => endian /\ Len(buffer.memory) = 0   \* one state of it will do

MCNext ==
  /\ UNCHANGED part
  /\ \/ part = "members" /\ MembersNext /\ UNCHANGED <<registryVars, bufferVars, bytes>>
     \/ part = "registry" /\ RegistryNext /\ UNCHANGED <<membersVars, bufferVars, bytes>>
     \/ part = "buffer" /\ BufferNext /\ UNCHANGED <<membersVars, registryVars, bytes>>
     \/ part = "codecs" /\ CodecsNext /\ UNCHANGED <<membersVars, registryVars, bufferVars>>

MCSpec == MCInit /\ [][MCNext]_<<part, membersVars, registryVars, bufferVars, bytes>>

\* Every variable of the four parts has its type.
ClientTypeOK == MembersTypeOK /\ RegistryTypeOK /\ BufferTypeOK /\ bytes \in Seq(0 .. 255)

=============================================================================
