----------------------------- MODULE ProgsDynptr -----------------------------
(***************************************************************************)
(* progs/dynptr_fail.rs: handles of memory that live on the stack, their   *)
(* clones, the pointers taken from them, and what makes each invalid.      *)
(* Left out: bounds, offsets and lengths, memory of the wrong type, writes *)
(* to read-only memory, program types that have no packet.                 *)
(***************************************************************************)
EXTENDS BpfVerifier

on_dynptr(name, body, msg) == prog(name, "atomic", body, msg)
\* ops if the map has no such value.
get_map_val_dynptr(d, ops) == <<lookup("map_val"), if("map_val", <<dyn_from(d, "dynptr")>>, ops)>>
or_return == <<return>>
slice(v, d, ops) == <<dyn_data(v, d), if_null(v, ops)>>
bpf_loop(body) == <<maybe(body \o <<maybe(body)>>)>>
from_skb(d) == dyn_from(d, "packet")

ringbuf_missing_release == {
    on_dynptr("ringbuf_missing_release1", <<dyn_reserve("ptr")>>, Unreleased),
    on_dynptr("ringbuf_missing_release2",
           <<dyn_reserve("ptr1"), dyn_reserve("ptr2")>>
           \o slice("sample", "ptr1", <<dyn_release("ptr1"), dyn_release("ptr2")>>) \o <<dyn_release("ptr1")>>, Unreleased)}
\* The slots of a frame are lost when its function returns.
missing_release_callback_fn == <<dyn_reserve("ptr"), overwrite("ptr")>>
ringbuf_missing_release_callback ==
    on_dynptr("ringbuf_missing_release_callback", bpf_loop(missing_release_callback_fn), LosesDynptr)
ringbuf_release_uninit_dynptr == on_dynptr("ringbuf_release_uninit_dynptr", <<dyn_release("ptr")>>, NoDynptr)
use_after_invalid ==
    on_dynptr("use_after_invalid", <<dyn_reserve("ptr"), dyn_use("ptr"), dyn_release("ptr"), dyn_use("ptr")>>, NoDynptr)
add_dynptr_to_map(name) == on_dynptr(name, <<dyn_reserve("ptr"), read("ptr"), dyn_release("ptr")>>, BadRead)

data_slice_use_after_release == {
    on_dynptr("data_slice_use_after_release1",
           <<dyn_reserve("ptr")>> \o slice("sample", "ptr", <<dyn_release("ptr")>>)
           \o <<deref("sample"), dyn_release("ptr"), deref("sample")>>, ScalarAccess),
    on_dynptr("data_slice_use_after_release2",
           <<dyn_reserve("ptr1"), dyn_reserve("ptr2")>>
           \o slice("sample", "ptr2", <<dyn_release("ptr2"), dyn_release("ptr1")>>)
           \o <<deref("sample"), dyn_release("ptr2"), deref("sample"), dyn_release("ptr1")>>, ScalarAccess)}
data_slice_missing_null_check == {
    on_dynptr("data_slice_missing_null_check1",
           <<dyn_reserve("ptr"), dyn_data("data", "ptr"), deref("data"), dyn_release("ptr")>>, OrNullAccess),
    on_dynptr("data_slice_missing_null_check2",
           <<dyn_reserve("ptr"), dyn_data("data1", "ptr"), dyn_data("data2", "ptr"),
             if_some("data1", <<deref("data2")>>), dyn_release("ptr")>>, OrNullAccess)}
invalid_helper1 == on_dynptr("invalid_helper1", get_map_val_dynptr("ptr", <<>>) \o <<read("ptr")>>, BadRead)

invalid_write1 ==
    on_dynptr("invalid_write1", get_map_val_dynptr("ptr", <<>>) \o <<overwrite("ptr"), dyn_data("data", "ptr")>>, NoDynptr)
invalid_write(name, ops) ==
    on_dynptr(name, <<dyn_reserve("ptr")>> \o ops \o <<dyn_release("ptr")>>, LosesDynptr)
invalid_write2 == invalid_write("invalid_write2", <<overwrite("ptr"), dyn_use("ptr")>>)
invalid_write3 == invalid_write("invalid_write3", <<overwrite("ptr")>>)
invalid_write4 == invalid_write("invalid_write4", bpf_loop(<<overwrite("ptr")>>))
global_dynptr == on_dynptr("global", <<in_map("global_dynptr"), dyn_reserve("global_dynptr"), dyn_release("global_dynptr")>>, TypeMap)
invalid_read1 == on_dynptr("invalid_read1", <<dyn_reserve("ptr"), read("ptr"), dyn_release("ptr")>>, BadRead)
invalid_read3 ==
    on_dynptr("invalid_read3",
           <<dyn_reserve("ptr1"), dyn_reserve("ptr2"), read("ptr1"), dyn_release("ptr1"), dyn_release("ptr2")>>, BadRead)
invalid_read4 == on_dynptr("invalid_read4", <<dyn_reserve("ptr")>> \o bpf_loop(<<read("ptr")>>) \o <<dyn_release("ptr")>>, BadRead)
release_twice(name, again) == on_dynptr(name, <<dyn_reserve("ptr"), dyn_release("ptr")>> \o again, NoDynptr)

\* The reservation is given back even when it failed (the first side).
dynptr_pruning_overwrite ==
    on_dynptr("dynptr_pruning_overwrite", <<dyn_reserve("ptr"), either(<<overwrite("ptr")>>, <<>>), dyn_release("ptr")>>, LosesDynptr)
dynptr_pruning_stacksafe ==
    on_dynptr("dynptr_pruning_stacksafe", <<dyn_reserve("ptr"), either(<<>>, <<>>), dyn_release("ptr")>>, "")
dynptr_pruning_type_confusion ==
    on_dynptr("dynptr_pruning_type_confusion",
           <<helper, lookup("r8"), if_null("r8", <<>>), dyn_reserve("ptr"),
             either(<<overwrite("ptr"), dyn_from("ptr", "dynptr")>>, <<>>), dyn_release("ptr")>>, LosesDynptr)
dynptr_partial_slot_invalidate ==
    on_dynptr("dynptr_partial_slot_invalidate",
           <<helper, lookup("r7"), if_null("r7", <<>>), dyn_reserve("ptr"), overwrite("ptr"),
             dyn_from("half", "dynptr"), dyn_use("ptr"), dyn_release("ptr")>>, LosesDynptr)
dynptr_overwrite_unref ==
    LET init == get_map_val_dynptr("ptr", or_return) IN on_dynptr("dynptr_overwrite_unref", init \o init \o init, "")
dynptr_invalidate_slice_reinit ==
    LET init == get_map_val_dynptr("ptr", or_return) IN
    on_dynptr("dynptr_invalidate_slice_reinit", init \o slice("p", "ptr", <<>>) \o init \o <<deref("p")>>, ScalarAccess)
dynptr_invalidate_slice_or_null ==
    on_dynptr("dynptr_invalidate_slice_or_null",
           get_map_val_dynptr("ptr", or_return) \o <<dyn_data("p", "ptr"), overwrite("ptr"), use("p")>>, TypeScalar)
dynptr_invalidate_slice(name, used, msg) ==
    on_dynptr(name, get_map_val_dynptr("ptr1", or_return) \o get_map_val_dynptr("ptr2", or_return)
                 \o slice("p1", "ptr1", <<>>) \o slice("p2", "ptr2", <<>>) \o <<overwrite("ptr1"), deref(used)>>, msg)
dynptr_invalidate_slice_failure == dynptr_invalidate_slice("dynptr_invalidate_slice_failure", "p1", ScalarAccess)
dynptr_invalidate_slice_success == dynptr_invalidate_slice("dynptr_invalidate_slice_success", "p2", "")
dynptr_overwrite_ref ==
    on_dynptr("dynptr_overwrite_ref", <<dyn_reserve("ptr")>> \o get_map_val_dynptr("ptr", <<dyn_release("ptr")>>), LosesDynptr)
dynptr_read_into_slot ==
    on_dynptr("dynptr_read_into_slot", <<dyn_reserve("ptr"), dyn_use("ptr"), overwrite("ptr")>>, LosesDynptr)
uninit_write_into_slot == on_dynptr("uninit_write_into_slot", <<dyn_reserve("ptr"), overwrite("ptr")>>, LosesDynptr)

\* What points into a packet is lost when the packet is written or moved,
\* through whichever of its dynptrs.
pull_data == <<move_packet, maybe(<<return>>)>>
skb_slice(name, change) ==
    on_dynptr(name, <<from_skb("ptr")>> \o slice("hdr", "ptr", <<>>) \o <<deref("hdr")>> \o change \o <<deref("hdr")>>, ScalarAccess)
skb_invalid_data_slice_pull == {skb_slice(name, pull_data) : name \in {"skb_invalid_data_slice1", "skb_invalid_data_slice2"}}
skb_invalid_data_slice_write ==
    {skb_slice(name, <<dyn_write("ptr")>>) : name \in {"skb_invalid_data_slice3", "skb_invalid_data_slice4"}}
both_slice(name, sliced, written) ==
    on_dynptr(name, <<from_skb("data"), from_skb("meta")>> \o slice("d", sliced, <<>>) \o <<dyn_write(written), deref("d")>>, ScalarAccess)
skb_slice_invalid_after_metadata_write ==
    {both_slice(name, "data", "meta") : name \in {"ro_skb_slice_invalid_after_metadata_write",
                                                  "rw_skb_slice_invalid_after_metadata_write"}}
skb_meta_slice_invalid_after_payload_write ==
    {both_slice(name, "meta", "data") : name \in {"ro_skb_meta_slice_invalid_after_payload_write",
                                                  "rw_skb_meta_slice_invalid_after_payload_write"}}
meta_slice(name, change) ==
    on_dynptr(name, <<from_skb("meta")>> \o slice("md", "meta", <<>>) \o change \o <<deref("md")>>, ScalarAccess)
skb_meta_slice_invalid_after_payload_helper ==
    {meta_slice(name, pull_data) : name \in {"ro_skb_meta_slice_invalid_after_payload_helper",
                                             "rw_skb_meta_slice_invalid_after_payload_helper"}}
skb_meta_slice_invalid_after_metadata_write ==
    {meta_slice(name, <<dyn_write("meta")>>) : name \in {"ro_skb_meta_slice_invalid_after_metadata_write",
                                                         "rw_skb_meta_slice_invalid_after_metadata_write"}}
xdp_invalid_data_slice == {skb_slice(name, pull_data) : name \in {"xdp_invalid_data_slice1", "xdp_invalid_data_slice2"}}

dynptr_slice_commuted_invalidate ==
    on_dynptr("dynptr_slice_commuted_invalidate",
           <<dyn_reserve("ptr")>> \o slice("slice", "ptr", <<dyn_release("ptr")>>) \o <<dyn_release("ptr"), deref("slice")>>,
           ScalarAccess)
invalid_data_slices ==
    on_dynptr("invalid_data_slices",
           get_map_val_dynptr("ptr", or_return) \o slice("slice", "ptr", <<>>)
           \o bpf_loop(<<overwrite("ptr")>>) \o <<deref("slice")>>, ScalarAccess)
dynptr_invalid ==
    {on_dynptr(name, <<stack("ptr"), dyn_use("ptr")>>, NoDynptr) :
        name \in {"dynptr_adjust_invalid", "dynptr_is_null_invalid", "dynptr_is_rdonly_invalid", "dynptr_size_invalid"}}

clone_invalid1 == on_dynptr("clone_invalid1", <<stack("ptr1"), dyn_clone("ptr2", "ptr1")>>, NoDynptr)
clone_invalid2 ==
    on_dynptr("clone_invalid2",
           <<from_skb("ptr1"), dyn_reserve("clone"), dyn_clone("clone", "ptr1"), dyn_release("clone")>>, LosesDynptr)
\* One of the clones is submitted, another is used.
clone_used(name, clones, submitted, used) ==
    on_dynptr(name, <<dyn_reserve("ptr")>> \o [i \in DOMAIN clones |-> dyn_clone(clones[i], "ptr")]
                 \o <<dyn_release(submitted), dyn_use(used)>>, NoDynptr)
clone_invalidate1 == clone_used("clone_invalidate1", <<"clone">>, "ptr", "clone")
clone_invalidate2 == clone_used("clone_invalidate2", <<"clone">>, "clone", "ptr")
clone_invalidate3 == clone_used("clone_invalidate3", <<"clone1", "clone2">>, "clone2", "clone1")
clone_invalidate4 ==
    on_dynptr("clone_invalidate4",
           <<dyn_reserve("ptr"), dyn_clone("clone", "ptr")>> \o slice("data", "clone", <<>>)
           \o <<dyn_release("ptr"), deref("data")>>, ScalarAccess)
clone_slice_in_subprog == <<dyn_clone("clone", "ptr"), dyn_data("data", "clone"), overwrite("clone")>>
caller_slice_in_subprog == <<dyn_data("data", "ptr"), dyn_clone("clone", "ptr"), overwrite("clone")>>
reserve_dynptr_in_subprog == <<dyn_reserve("local"), overwrite("local")>>
referenced_dynptr_lost_on_subprog_return ==
    on_dynptr("referenced_dynptr_lost_on_subprog_return", reserve_dynptr_in_subprog, LosesDynptr)
caller_dynptr_slice_across_subprog_valid ==
    on_dynptr("caller_dynptr_slice_across_subprog_valid",
           <<dyn_reserve("ptr")>> \o caller_slice_in_subprog \o <<if_some("data", <<deref("data")>>), dyn_release("ptr")>>, "")
callee_dynptr_slice_invalid_after_return ==
    on_dynptr("callee_dynptr_slice_invalid_after_return",
           <<dyn_reserve("ptr")>> \o clone_slice_in_subprog \o <<if_some("data", <<deref("data")>>), dyn_release("ptr")>>, ScalarAccess)
caller_dynptr_slice_release_after_subprog_invalid ==
    on_dynptr("caller_dynptr_slice_release_after_subprog_invalid",
           <<dyn_reserve("ptr")>> \o caller_slice_in_subprog \o <<dyn_release("ptr"), if_some("data", <<deref("data")>>)>>, ScalarAccess)
clone_invalidate5 ==
    on_dynptr("clone_invalidate5",
           <<dyn_reserve("ptr")>> \o slice("data", "ptr", <<>>)
           \o <<dyn_clone("clone", "ptr"), dyn_release("clone"), deref("data")>>, ScalarAccess)
clone_invalidate6 ==
    on_dynptr("clone_invalidate6",
           <<dyn_reserve("ptr"), dyn_clone("clone1", "ptr"), dyn_clone("clone2", "ptr")>> \o slice("data", "clone1", <<>>)
           \o <<dyn_release("clone2"), deref("data")>>, ScalarAccess)
clone_packet ==
    {on_dynptr(name, <<from_skb("ptr"), dyn_clone("clone", "ptr")>> \o slice("data", "clone", <<>>) \o pull_data \o <<deref("data")>>,
            ScalarAccess) : name \in {"clone_skb_packet_data", "clone_skb_packet_meta", "clone_xdp_packet_data"}}

ref_and_clone == <<dyn_reserve("ptr"), dyn_clone("clone", "ptr")>>
dynptr_overwrite_ref_with_clone ==
    on_dynptr("dynptr_overwrite_ref_with_clone", ref_and_clone \o <<overwrite("ptr"), dyn_release("clone")>>, "")
dynptr_overwrite_ref_last_clone ==
    on_dynptr("dynptr_overwrite_ref_last_clone", ref_and_clone \o <<overwrite("ptr"), overwrite("clone")>>, LosesDynptr)
dynptr_overwrite_clone_with_original ==
    on_dynptr("dynptr_overwrite_clone_with_original", ref_and_clone \o <<overwrite("clone"), dyn_release("ptr")>>, "")
dynptr_overwrite_ref_invalidate_slice ==
    on_dynptr("dynptr_overwrite_ref_invalidate_slice",
           <<dyn_reserve("ptr")>> \o slice("data", "ptr", <<>>)
           \o <<dyn_clone("clone", "ptr"), overwrite("ptr"), deref("data")>>, ScalarAccess)
dynptr_overwrite_ref_clone_slice_valid ==
    on_dynptr("dynptr_overwrite_ref_clone_slice_valid",
           ref_and_clone \o slice("data", "clone", <<dyn_release("clone")>>)
           \o <<overwrite("ptr"), deref("data"), dyn_release("clone")>>, "")

Dynptrs ==
    {ringbuf_missing_release_callback, ringbuf_release_uninit_dynptr, use_after_invalid, add_dynptr_to_map("add_dynptr_to_map1"),
     add_dynptr_to_map("add_dynptr_to_map2"), invalid_helper1, invalid_write1, invalid_write2, invalid_write3, invalid_write4,
     global_dynptr, invalid_read1, invalid_read3, invalid_read4, release_twice("release_twice", <<dyn_release("ptr")>>),
     release_twice("release_twice_callback", bpf_loop(<<dyn_release("ptr")>>)), dynptr_pruning_overwrite,
     dynptr_pruning_stacksafe, dynptr_pruning_type_confusion, dynptr_partial_slot_invalidate, dynptr_overwrite_unref,
     dynptr_invalidate_slice_reinit, dynptr_invalidate_slice_or_null, dynptr_invalidate_slice_failure,
     dynptr_invalidate_slice_success, dynptr_overwrite_ref, dynptr_read_into_slot, uninit_write_into_slot,
     dynptr_slice_commuted_invalidate, invalid_data_slices}
    \cup ringbuf_missing_release \cup data_slice_use_after_release \cup data_slice_missing_null_check
    \cup skb_invalid_data_slice_pull \cup skb_invalid_data_slice_write \cup skb_slice_invalid_after_metadata_write
    \cup skb_meta_slice_invalid_after_payload_write \cup skb_meta_slice_invalid_after_payload_helper
    \cup skb_meta_slice_invalid_after_metadata_write \cup xdp_invalid_data_slice \cup dynptr_invalid
DynptrClones ==
    {clone_invalid1, clone_invalid2, clone_invalidate1, clone_invalidate2, clone_invalidate3, clone_invalidate4, clone_invalidate5,
     clone_invalidate6, referenced_dynptr_lost_on_subprog_return, caller_dynptr_slice_across_subprog_valid,
     callee_dynptr_slice_invalid_after_return, caller_dynptr_slice_release_after_subprog_invalid,
     dynptr_overwrite_ref_with_clone, dynptr_overwrite_ref_last_clone, dynptr_overwrite_clone_with_original,
     dynptr_overwrite_ref_invalidate_slice, dynptr_overwrite_ref_clone_slice_valid} \cup clone_packet
DynptrsFail == Dynptrs \cup DynptrClones
=============================================================================
