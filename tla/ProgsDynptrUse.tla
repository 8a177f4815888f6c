--------------------------- MODULE ProgsDynptrUse ---------------------------
(***************************************************************************)
(* progs/dynptr_success.rs: every exit of a program gives its ring buffer  *)
(* reservations back, also those that failed, and leaves no iterator open. *)
(* What a call returned is not kept: a test of it goes either way.  Loops  *)
(* of 200 chunks and of 7 lengths run at most twice.                       *)
(***************************************************************************)
EXTENDS BpfVerifier

test(name, body) == prog(name, "atomic", body, "")
not_current_pid == <<maybe(<<return>>)>>
\* Each operation, and out if it did not return what it should.
checked(ops, out) ==
    [i \in 1..2 * Len(ops) |-> IF i % 2 = 1 THEN ops[(i + 1) \div 2] ELSE maybe(out \o <<return>>)]
bpf_for(it, body) ==
    <<iter_new(it), iter_next(it), maybe(body \o <<iter_next(it), maybe(body \o <<iter_next(it)>>)>>), iter_destroy(it)>>
\* Whether the bytes differ or not, the iterator is destroyed.
bpf_memcmp == <<iter_new("at"), iter_next("at"), iter_destroy("at")>>
skb(d) == dyn_from(d, "packet")
discard == <<dyn_release("ptr")>>

test_read_write ==
    test("test_read_write", not_current_pid \o <<dyn_reserve("ptr"), dyn_write("ptr"), maybe(<<dyn_use("ptr")>>)>> \o discard)
test_dynptr_data ==
    test("test_dynptr_data",
         not_current_pid \o <<helper, lookup("map_val"), if_null("map_val", <<>>), dyn_from("ptr", "dynptr"),
                              dyn_data("data", "ptr"), if_some("data", <<return>>), dyn_data("data", "ptr"),
                              if_some("data", <<return>>), dyn_data("data", "ptr"), if_null("data", <<>>),
                              deref("data"), maybe(<<return>>), deref("data")>>)
ringbuf_callback == <<dyn_data("sample", "ptr"), if_some("sample", <<deref("sample")>>)>>
test_ringbuf ==
    test("test_ringbuf",
         not_current_pid
         \o <<dyn_reserve("ptr"), either(<<null("outer")>>, <<dyn_data("outer", "ptr")>>),
              if_some("outer", <<deref("outer"), maybe(ringbuf_callback \o <<maybe(ringbuf_callback)>>), deref("outer")>>)>>
         \o discard)
test_skb_readonly(name) == test(name, checked(<<skb("ptr"), dyn_write("ptr")>>, <<>>))
test_dynptr_skb_data(name) == test(name, checked(<<skb("ptr"), dyn_data("data", "ptr")>>, <<>>))
test_dynptr_skb_meta_flags ==
    test("test_dynptr_skb_meta_flags", checked(<<skb("meta"), skb("meta"), dyn_use("meta"), dyn_write("meta")>>, <<>>))

\* The operations use the size the dynptr has before.
test_adjust ==
    test("test_adjust",
         not_current_pid
         \o checked(<<dyn_reserve("ptr"), dyn_use("ptr")>>, discard) \o <<dyn_use("ptr")>>
         \o checked(<<dyn_use("ptr"), dyn_use("ptr"), dyn_use("ptr"), dyn_use("ptr")>>, discard) \o discard)
test_adjust_err ==
    test("test_adjust_err",
         not_current_pid
         \o checked(<<dyn_reserve("ptr"), dyn_use("ptr"), dyn_use("ptr"), dyn_use("ptr"), dyn_use("ptr"), dyn_write("ptr")>>, discard)
         \o discard)
test_zero_size_dynptr ==
    test("test_zero_size_dynptr",
         not_current_pid
         \o checked(<<dyn_reserve("ptr"), dyn_use("ptr"), dyn_use("ptr"), dyn_write("ptr"), dyn_use("ptr"), dyn_write("ptr")>>, discard)
         \o discard)
test_dynptr_is_null ==
    LET exit_early == <<dyn_release("ptr1")>>
        exit == <<dyn_release("ptr2")>> \o exit_early
    IN test("test_dynptr_is_null",
            not_current_pid \o checked(<<dyn_reserve("ptr1"), dyn_use("ptr1")>>, exit_early)
            \o checked(<<dyn_reserve("ptr2"), dyn_use("ptr2")>>, exit) \o exit)
test_dynptr_is_rdonly ==
    test("test_dynptr_is_rdonly",
         checked(<<skb("ptr1"), dyn_use("ptr1"), skb("ptr2"), dyn_use("ptr2")>>, <<>>)
         \o checked(<<dyn_reserve("ptr3"), dyn_use("ptr3")>>, <<dyn_release("ptr3")>>) \o <<dyn_release("ptr3")>>)
test_dynptr_clone ==
    test("test_dynptr_clone",
         checked(<<skb("ptr1")>>, <<>>) \o <<dyn_use("ptr1")>>
         \o checked(<<dyn_use("ptr1"), dyn_clone("ptr2", "ptr1")>>, <<>>) \o <<dyn_use("ptr1")>>
         \o checked(<<dyn_use("ptr2")>>, <<>>) \o <<dyn_use("ptr2")>>
         \o checked(<<dyn_use("ptr1")>>, <<>>) \o <<dyn_use("ptr1")>> \o checked(<<dyn_use("ptr2")>>, <<>>))
test_dynptr_skb_no_buff == test("test_dynptr_skb_no_buff", checked(<<skb("ptr")>>, <<>>) \o <<dyn_data("data", "ptr")>>)
test_dynptr_skb_strcmp ==
    test("test_dynptr_skb_strcmp",
         checked(<<skb("ptr")>>, <<>>) \o <<dyn_data("data", "ptr"), if_some("data", <<deref("data")>>)>>)

\* Once err is set nothing more is tried.
test_dynptr_copy ==
    LET compared == <<dyn_use("dst"), maybe(bpf_memcmp)>>
        copied(more) == <<dyn_use("src"), dyn_write("dst"), maybe(compared \o more)>>
    IN test("test_dynptr_copy",
            <<dyn_reserve("src"), dyn_reserve("dst"), dyn_write("src"), maybe(copied(<<maybe(copied(<<>>))>>)),
              dyn_release("src"), dyn_release("dst")>>)
\* Out of a loop the iterator is destroyed first.
test_dynptr_copy_xdp ==
    LET out == <<dyn_release("ptr_buf"), return>>
        chunks(body) == bpf_for("it", body)
        failed == maybe(<<iter_destroy("it")>> \o out)
        written == chunks(<<dyn_write("ptr_buf"), failed>>)
        read_back(d) == chunks(<<dyn_use(d), failed>> \o bpf_memcmp \o <<failed>>)
        copy(dst, src) == <<dyn_use(src), dyn_write(dst)>>
    IN test("test_dynptr_copy_xdp",
            <<dyn_from("ptr_xdp", "packet"), dyn_use("ptr_xdp"), dyn_reserve("ptr_buf")>>
            \o written \o copy("ptr_xdp", "ptr_buf") \o <<maybe(out)>> \o read_back("ptr_xdp")
            \o written \o copy("ptr_buf", "ptr_xdp") \o <<maybe(out)>> \o read_back("ptr_buf")
            \o copy("ptr_xdp", "ptr_xdp") \o <<maybe(out)>> \o read_back("ptr_xdp")
            \o copy("ptr_xdp", "ptr_xdp") \o <<dyn_release("ptr_buf")>>)

test_dynptr_memset(name) ==
    test(name, <<dyn_from("ptr", "dynptr"), maybe(<<dyn_write("ptr"), maybe(bpf_memcmp)>>)>>)
test_dynptr_memset_zero_adjusted ==
    test("test_dynptr_memset_zero_adjusted",
         <<dyn_from("ptr", "dynptr"),
           maybe(<<dyn_use("ptr"), maybe(<<dyn_use("ptr"), dyn_write("ptr"), maybe(bpf_memcmp)>>)>>)>>)
test_dynptr_memset_overflow(name) == test(name, <<dyn_from("ptr", "dynptr"), dyn_write("ptr")>>)
test_dynptr_memset_readonly == test("test_dynptr_memset_readonly", <<skb("ptr"), dyn_use("ptr"), dyn_write("ptr")>>)
test_dynptr_memset_xdp_chunks ==
    LET left == maybe(<<iter_destroy("it"), return>>)
    IN test("test_dynptr_memset_xdp_chunks",
            <<dyn_from("ptr_xdp", "packet"), dyn_use("ptr_xdp"), dyn_write("ptr_xdp"), maybe(<<return>>)>>
            \o bpf_for("it", <<left, dyn_use("ptr_xdp"), left>> \o bpf_memcmp \o <<left>>))

\* read_fn sleeps or not, and writes into the dynptr; once err is set nothing
\* is read or written.  A length beyond the buffer breaks out of the loop in
\* the first function, the others go on with the next length.
read_fn(sleeps, d) == sleeps \o <<dyn_write(d)>>
compared(d) == <<maybe(<<dyn_use(d)>>), maybe(bpf_memcmp \o <<maybe(<<dyn_write(d)>>)>>)>>
test_dynptr_probe(sleeps) ==
    LET round(next) == maybe(<<maybe(read_fn(sleeps, "ptr_buf")), maybe(compared("ptr_buf") \o next)>>)
    IN <<maybe(<<dyn_reserve("ptr_buf"), iter_new("it"), iter_next("it"),
                 round(<<iter_next("it"), round(<<iter_next("it")>>)>>), iter_destroy("it"), dyn_release("ptr_buf")>>)>>
test_dynptr_probe_str(sleeps) ==
    <<maybe(<<dyn_reserve("ptr_buf")>>
            \o bpf_for("it", read_fn(sleeps, "ptr_buf") \o <<maybe(<<maybe(<<dyn_use("ptr_buf")>>), maybe(bpf_memcmp)>>)>>)
            \o <<dyn_release("ptr_buf")>>)>>
test_dynptr_probe_xdp ==
    <<maybe(<<dyn_from("ptr_xdp", "packet")>>
            \o bpf_for("it", <<maybe(read_fn(<<>>, "ptr_xdp")), maybe(compared("ptr_xdp"))>>))>>
test_dynptr_probe_str_xdp ==
    <<maybe(<<dyn_from("ptr_xdp", "packet"),
              maybe(bpf_for("it", read_fn(<<>>, "ptr_xdp") \o <<maybe(compared("ptr_xdp"))>>))>>)>>
test_probe_read_dynptr ==
    {test(name, test_dynptr_probe(<<>>) \o <<maybe(test_dynptr_probe_xdp)>>) :
        name \in {"test_probe_read_user_dynptr", "test_probe_read_kernel_dynptr"}}
test_probe_read_str_dynptr ==
    {test(name, test_dynptr_probe_str(<<>>) \o <<maybe(test_dynptr_probe_str_xdp)>>) :
        name \in {"test_probe_read_user_str_dynptr", "test_probe_read_kernel_str_dynptr"}}
test_copy_from_user == {
    prog("test_copy_from_user_dynptr", "sleepable", test_dynptr_probe(<<sleep_kfunc>>), ""),
    prog("test_copy_from_user_str_dynptr", "sleepable", test_dynptr_probe_str(<<sleep_kfunc>>), "")}
bpf_copy_data_from_user_task == <<arg("task"), use("task"), sleep_kfunc>>
test_copy_from_user_task == {
    prog("test_copy_from_user_task_dynptr", "sleepable", test_dynptr_probe(bpf_copy_data_from_user_task), ""),
    prog("test_copy_from_user_task_str_dynptr", "sleepable", test_dynptr_probe_str(bpf_copy_data_from_user_task), "")}

DynptrUses ==
    {test_read_write, test_dynptr_data, test_ringbuf, test_skb_readonly("test_skb_readonly"),
     test_skb_readonly("test_dynptr_skb_tp_btf"), test_dynptr_skb_data("test_dynptr_skb_data"),
     test_dynptr_skb_data("test_dynptr_skb_slice_non_linear"), test_dynptr_skb_data("test_dynptr_skb_meta_data"),
     test_dynptr_skb_meta_flags, test_dynptr_is_rdonly, test_dynptr_clone, test_dynptr_skb_no_buff, test_dynptr_skb_strcmp}
DynptrSizes == {test_adjust, test_adjust_err, test_zero_size_dynptr, test_dynptr_is_null}
DynptrCopies == {test_dynptr_copy, test_dynptr_copy_xdp}
DynptrMemsets ==
    {test_dynptr_memset("test_dynptr_memset_zero"), test_dynptr_memset("test_dynptr_memset_notzero"),
     test_dynptr_memset("test_dynptr_memset_zero_offset"), test_dynptr_memset_zero_adjusted,
     test_dynptr_memset_overflow("test_dynptr_memset_overflow"),
     test_dynptr_memset_overflow("test_dynptr_memset_overflow_offset"), test_dynptr_memset_readonly,
     test_dynptr_memset_xdp_chunks}
DynptrProbes == test_probe_read_dynptr \cup test_probe_read_str_dynptr
DynptrUserCopies == test_copy_from_user \cup test_copy_from_user_task
=============================================================================
