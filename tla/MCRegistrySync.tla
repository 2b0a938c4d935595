--------------------------- MODULE MCRegistrySync ---------------------------
(* Instances of RegistrySync for TLC. *)
EXTENDS RegistryCursor

CONSTANTS Row0, Chat   \* device 0's own row, where an instance has it, and a chat's

\* Both replicas without a host, and device 0 with one.
NoHosts == [c \in Devices |-> NoHost]
OneHost == [c \in Devices |-> IF c = 0 THEN Row0 ELSE NoHost]

\* Rows that no host owns are interchangeable.
RowSymmetry == Permutations(Keys)

=============================================================================
