---------------------------- MODULE MCMemoryImport --------------------------
(* One interaction and feedback on it in the source scope; the target      *)
(* scope has had a conversation of its own with the same words.            *)
EXTENDS MemoryImport

MCSourceLog ==
    << [id |-> <<"a", 0>>, hash |-> "hello", ref |-> NoRef],
       [id |-> <<"b", 0>>, hash |-> Feedback, ref |-> <<"a", 0>>] >>

MCLocalLog == << [id |-> <<"x", 0>>, hash |-> "hello", ref |-> NoRef] >>

=============================================================================
