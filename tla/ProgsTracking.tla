---------------------------- MODULE ProgsTracking ----------------------------
(***************************************************************************)
(* progs/verifier_ref_tracking.rs: references to sockets and keys on all   *)
(* the ways out of a program.  A register or a stack slot that holds a     *)
(* copy of a pointer is the variable it is a copy of.  Left out: pointer   *)
(* arithmetic and accesses refused for their offset, their size or a       *)
(* clobbered register.                                                     *)
(***************************************************************************)
EXTENDS BpfVerifier

\* The call that is in every program on sockets: bpf_sk_lookup_tcp,
\* bpf_skc_lookup_tcp.  It may find none.
sk_lookup == find("sk")
tc(name, body, msg) == prog(name, "atomic", body, msg)
\* The listener of a socket: not referenced, protected by the read section.
get_listener_sock(v) == load(v, "locked")
\* The program goes on with sk, or ends.
found == <<sk_lookup, if_null("sk", <<>>)>>
\* tp, or sk is released and the program ends.
derived(v, p) == <<cast(v, p), if_null(v, <<release("sk")>>)>>

reference_tracking_leaks == {
    tc("reference_tracking_leak_potential_reference", <<sk_lookup>>, Unreleased),
    tc("potential_reference_to_sock_common_1", <<sk_lookup>>, Unreleased),
    tc("leak_potential_reference_on_stack", <<sk_lookup>>, Unreleased),
    tc("potential_reference_on_stack_2", <<sk_lookup>>, Unreleased)}
reference_tracking_zeroes == {
    tc("reference_tracking_zero_potential_reference", <<sk_lookup>>, Unreleased),
    tc("potential_reference_to_sock_common_2", <<sk_lookup>>, Unreleased),
    tc("copy_and_zero_potential_references", <<sk_lookup>>, Unreleased)}

\* bpf_lookup_user_key, bpf_lookup_system_key and bpf_key_put
key_reference == {
    tc("acquire_release_user_key_reference", <<find("key"), if_some("key", <<release("key")>>)>>, ""),
    tc("acquire_release_system_key_reference", <<find("key"), if_some("key", <<release("key")>>)>>, ""),
    tc("user_key_reference_without_check", <<find("key"), release("key")>>, PossiblyNull),
    tc("system_key_reference_without_check", <<find("key"), release("key")>>, PossiblyNull),
    tc("release_with_null_key_pointer", <<null("key"), release("key")>>, PossiblyNull),
    tc("potential_reference_to_user_key", <<find("key")>>, Unreleased),
    tc("potential_reference_to_system_key", <<find("key")>>, Unreleased)}

release_reference == {
    tc("tracking_release_reference_without_check", <<sk_lookup, release("sk")>>, PossiblyNull),
    tc("to_sock_common_without_check", <<sk_lookup, release("sk")>>, PossiblyNull),
    tc("reference_tracking_release_reference", <<sk_lookup, if_some("sk", <<release("sk")>>)>>, ""),
    tc("release_reference_to_sock_common", <<sk_lookup, if_some("sk", <<release("sk")>>)>>, "")}
release_reference_twice == {
    tc("reference_tracking_release_reference_2", found \o <<release("sk")>>, ""),
    tc("reference_tracking_release_reference_twice",
       <<sk_lookup, if_some("sk", <<release("sk")>>), release("sk")>>, TypeScalar),
    tc("release_reference_twice_inside_branch",
       <<sk_lookup, if_some("sk", <<release("sk"), release("sk")>>)>>, TypeScalar)}
\* A packet that is too short, then a branch on what it holds.
free_in_subbranches == {
    tc("check_free_in_one_subbranch",
       <<maybe(<<return>>), sk_lookup, maybe(<<return>>), if_some("sk", <<release("sk")>>)>>, Unreleased),
    tc("check_free_in_both_subbranches",
       <<maybe(<<return>>), sk_lookup,
         either(<<if_some("sk", <<release("sk")>>)>>, <<if_some("sk", <<release("sk")>>)>>)>>, "")}

reference_in_subprog__1 == <<if_some("sk", <<release("sk")>>)>>
reference_in_subprog == {
    tc("call_free_reference_in_subprog", <<sk_lookup>> \o reference_in_subprog__1, ""),
    tc("reference_in_subprog_and_outside", <<sk_lookup>> \o reference_in_subprog__1 \o <<release("sk")>>, TypeScalar)}
alloc_in_subprog == {
    tc("alloc_leak_reference_in_subprog", <<sk_lookup>>, Unreleased),
    tc("alloc_in_subprog_release_outside", <<sk_lookup, if_some("sk", <<release("sk")>>)>>, "")}
ptr_into_caller_stack == {
    tc("ptr_leak_into_caller_stack", <<sk_lookup>>, Unreleased),
    tc("ptr_spill_into_caller_stack", <<sk_lookup, if_some("sk", <<release("sk")>>)>>, "")}

\* A load from the packet by a constant or by a register.
reference_and_load == {
    tc("reference_tracking_allow_ld_abs", <<sk_lookup, if_some("sk", <<release("sk")>>), ld_abs, ld_abs, ld_abs>>, ""),
    tc("ld_abs_while_holding_reference",
       <<sk_lookup, ld_abs, ld_abs, ld_abs, if_some("sk", <<release("sk")>>)>>, WouldLeak),
    tc("reference_tracking_allow_ld_ind", <<sk_lookup, if_some("sk", <<release("sk")>>), ld_abs>>, ""),
    tc("ld_ind_while_holding_reference", <<sk_lookup, ld_abs, if_some("sk", <<release("sk")>>)>>, WouldLeak)}
reference_and_tail_call == {
    tc("check_reference_or_tail_call", <<sk_lookup, if("sk", <<release("sk")>>, <<tail_call>>)>>, ""),
    tc("release_reference_then_tail_call", <<sk_lookup, if_some("sk", <<release("sk")>>), tail_call>>, ""),
    tc("possible_reference_over_tail_call", <<sk_lookup, tail_call, if_some("sk", <<release("sk")>>)>>, WouldLeak),
    tc("checked_reference_over_tail_call", <<sk_lookup, if_some("sk", <<tail_call>>), release("sk")>>, WouldLeak)}

reference_tracking_access_member ==
    tc("reference_tracking_access_member", <<sk_lookup, if_some("sk", <<deref("sk"), release("sk")>>)>>, "")
\* A packet that is too short ends it.
tracking_direct_access_for_lookup ==
    tc("tracking_direct_access_for_lookup",
       <<maybe(<<return>>), sk_lookup, if_some("sk", <<deref("sk"), release("sk")>>)>>, "")
cast_after_release == {
    tc("bpf_tcp_sock_after_release", found \o derived("tp", "sk") \o <<release("sk"), deref("tp")>>, BadAccess),
    tc("bpf_sk_fullsock_after_release", found \o derived("fs", "sk") \o <<release("sk"), deref("fs")>>, BadAccess),
    tc("sk_fullsock_tp_after_release",
       found \o derived("tp", "sk") \o <<cast("fs", "tp"), release("sk"), if_null("fs", <<>>), deref("fs")>>, BadAccess)}
release_of_another == {
    tc("after_bpf_sk_release_tp", found \o derived("tp", "sk") \o <<release("tp"), deref("sk")>>, BadAccess),
    tc("after_bpf_sk_release_sk",
       found \o <<get_listener_sock("listen"), if_null("listen", <<release("sk")>>), release("sk"), deref("listen")>>, ""),
    tc("bpf_sk_release_listen_sk",
       found \o <<get_listener_sock("listen"), if_null("listen", <<release("sk")>>),
                  release("listen"), deref("sk"), release("sk")>>, NotReferenced)}
and_bpf_tcp_sock_sk ==
    tc("and_bpf_tcp_sock_sk",
       found \o <<cast("fs", "sk"), cast("tp", "sk"), if_null("fs", <<release("sk")>>), deref("tp"), release("sk")>>,
       BadAccess)
tracking_valid_pointer == {
    tc("tracking_valid_pointer_null_comparison",
       <<sk_lookup, if("sk", <<>>, <<>>), if_some("sk", <<release("sk")>>)>>, ""),
    tc("tracking_valid_pointer_value_comparison",
       <<sk_lookup, if_some("sk", <<either(<<release("sk")>>, <<>>)>>)>>, Unreleased)}
btf_tcp_sock == {
    tc("sk_release_btf_tcp_sock", found \o derived("tp", "sk") \o <<release("tp")>>, ""),
    tc("to_tcp_sock_after_release", found \o derived("tp", "sk") \o <<release("sk"), deref("tp")>>, BadAccess)}
\* A record of the ring buffer is discarded; what is stored is a number.
to_leak_released_ptr_reg ==
    tc("to_leak_released_ptr_reg", <<lookup("v"), if_null("v", <<>>), new("r"), if_null("r", <<>>), release("r")>>, "")

Tracking == UNION {reference_tracking_leaks, reference_tracking_zeroes, key_reference, release_reference,
    release_reference_twice, free_in_subbranches, reference_in_subprog, alloc_in_subprog, ptr_into_caller_stack,
    reference_and_load, reference_and_tail_call,
    {reference_tracking_access_member, tracking_direct_access_for_lookup, and_bpf_tcp_sock_sk, to_leak_released_ptr_reg},
    cast_after_release, release_of_another, tracking_valid_pointer, btf_tcp_sock}
=============================================================================
