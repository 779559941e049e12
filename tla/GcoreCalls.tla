------------------------------ MODULE GcoreCalls ------------------------------
(***************************************************************************)
(* The adapters of bindings.c for the imports of gcore:fastedge.  The      *)
(* loads of the three error types recur in each.                           *)
(***************************************************************************)
EXTENDS BindingsC, BindingsTypes

secret_error_at(o) == Switch(o, <<None, None, Span(o + 4)>>)
cache_error_at(o) == Switch(o, <<None, None, Span(o + 4)>>)
\* Mutant: the text of an error read in the case before.
key_value_error_early(o) == Switch(o, <<None, None, Span(o + 4), None>>)
key_value_error_at(o) == Switch(o, <<None, None, None, Span(o + 4)>>)

dictionary_get ==
    Call(<<String>>, <<Ptr(1), Count(1)>>, option_string, 12, 4, Switch(0, <<None, Span(4)>>))
secret_get ==
    Call(<<String>>, <<Ptr(1), Count(1)>>, secret_result_option_string_error, 16, 4,
         Switch(0, <<Switch(4, <<None, Span(8)>>), secret_error_at(4)>>))
secret_get_effective_at ==
    Call(<<String, Scalar(4)>>, <<Ptr(1), Count(1), It(2)>>,
         secret_result_option_string_error, 16, 4,
         Switch(0, <<Switch(4, <<None, Span(8)>>), secret_error_at(4)>>))
key_value_static_store_open ==
    Call(<<String>>, <<Ptr(1), Count(1)>>, key_value_result_own_store_error, 16, 4,
         Switch(0, <<Word(4), key_value_error_at(4)>>))
key_value_method_store_get ==
    Call(<<Handle, String>>, <<It(1), Ptr(2), Count(2)>>,
         key_value_result_option_value_error, 16, 4,
         Switch(0, <<Switch(4, <<None, Span(8)>>), key_value_error_at(4)>>))
key_value_method_store_scan ==
    Call(<<Handle, String>>, <<It(1), Ptr(2), Count(2)>>,
         key_value_result_list_string_error, 16, 4,
         Switch(0, <<Span(4), key_value_error_at(4)>>))
key_value_method_store_zrange_by_score ==
    Call(<<Handle, String, Scalar(8), Scalar(8)>>, <<It(1), Ptr(2), Count(2), It(3), It(4)>>,
         key_value_result_list_tuple2_value_f64_error, 16, 4,
         Switch(0, <<Span(4), key_value_error_at(4)>>))
\* Mutant: key and pattern change places.
zscan_swapped ==
    Call(<<Handle, String, String>>, <<It(1), Ptr(3), Count(3), Ptr(2), Count(2)>>,
         key_value_result_list_tuple2_value_f64_error, 16, 4,
         Switch(0, <<Span(4), key_value_error_at(4)>>))
key_value_method_store_zscan ==
    Call(<<Handle, String, String>>, <<It(1), Ptr(2), Count(2), Ptr(3), Count(3)>>,
         key_value_result_list_tuple2_value_f64_error, 16, 4,
         Switch(0, <<Span(4), key_value_error_at(4)>>))
key_value_method_store_bf_exists ==
    Call(<<Handle, String, String>>, <<It(1), Ptr(2), Count(2), Ptr(3), Count(3)>>,
         key_value_result_bool_error, 16, 4, Switch(0, <<Byte(4), key_value_error_at(4)>>))
cache_sync_get ==
    Call(<<String>>, <<Ptr(1), Count(1)>>, cache_sync_result_option_payload_error, 16, 4,
         Switch(0, <<Switch(4, <<None, Span(8)>>), cache_error_at(4)>>))
cache_sync_set ==
    Call(<<String, cache_types_payload, option_u64>>, <<Ptr(1), Count(1), Ptr(2), Count(2),
           Optional(3)>>,
         cache_sync_result_void_error, 16, 4, Switch(0, <<None, cache_error_at(4)>>))
cache_sync_delete ==
    Call(<<String>>, <<Ptr(1), Count(1)>>, cache_sync_result_void_error, 16, 4,
         Switch(0, <<None, cache_error_at(4)>>))
cache_sync_exists ==
    Call(<<String>>, <<Ptr(1), Count(1)>>, cache_sync_result_bool_error, 16, 4,
         Switch(0, <<Byte(4), cache_error_at(4)>>))
\* Mutant: the area of the calls whose answers hold no 64-bit number.
incr_small_area ==
    Call(<<String, Scalar(8)>>, <<Ptr(1), Count(1), It(2)>>, cache_sync_result_s64_error, 16, 4,
         Switch(0, <<Long(8), cache_error_at(8)>>))
cache_sync_incr ==
    Call(<<String, Scalar(8)>>, <<Ptr(1), Count(1), It(2)>>, cache_sync_result_s64_error, 24, 8,
         Switch(0, <<Long(8), cache_error_at(8)>>))
cache_sync_expire ==
    Call(<<String, Scalar(8)>>, <<Ptr(1), Count(1), It(2)>>, cache_sync_result_bool_error, 16, 4,
         Switch(0, <<Byte(4), cache_error_at(4)>>))
cache_sync_purge ==
    Call(<<>>, <<>>, cache_sync_result_u64_error, 24, 8,
         Switch(0, <<Long(8), cache_error_at(8)>>))
cache_sync_purge_prefix ==
    Call(<<String>>, <<Ptr(1), Count(1)>>, cache_sync_result_u64_error, 24, 8,
         Switch(0, <<Long(8), cache_error_at(8)>>))
utils_set_user_diag == Call(<<String>>, <<Ptr(1), Count(1)>>, Void, 0, 1, None)

gcore_fastedge ==
    [dictionary_get |-> dictionary_get,
     secret_get |-> secret_get,
     secret_get_effective_at |-> secret_get_effective_at,
     key_value_static_store_open |-> key_value_static_store_open,
     key_value_method_store_get |-> key_value_method_store_get,
     key_value_method_store_scan |-> key_value_method_store_scan,
     key_value_method_store_zrange_by_score |-> key_value_method_store_zrange_by_score,
     key_value_method_store_zscan |-> key_value_method_store_zscan,
     key_value_method_store_bf_exists |-> key_value_method_store_bf_exists,
     cache_sync_get |-> cache_sync_get,
     cache_sync_set |-> cache_sync_set,
     cache_sync_delete |-> cache_sync_delete,
     cache_sync_exists |-> cache_sync_exists,
     cache_sync_incr |-> cache_sync_incr,
     cache_sync_expire |-> cache_sync_expire,
     cache_sync_purge |-> cache_sync_purge,
     cache_sync_purge_prefix |-> cache_sync_purge_prefix,
     utils_set_user_diag |-> utils_set_user_diag]
=============================================================================
