----------------------------- MODULE BindingsFree -----------------------------
(***************************************************************************)
(* The _free helpers of bindings.c for the types that own memory.  A call  *)
(* of a helper that does nothing is Keep; a part that owns memory and has  *)
(* no call is Leave (bindings.c:1097, 1211, 1221, 1457, 1466, 1475, 1485). *)
(***************************************************************************)
EXTENDS BindingsC, BindingsTypes

string_free == Buffer(String, Keep)
option_string_free == OnSome(option_string, string_free)
secret_error_free == OnCase(secret_error, [n \in {2} |-> string_free])
secret_result_option_string_error_free ==
    OnResult(secret_result_option_string_error, option_string_free, secret_error_free)
key_value_value_free == Buffer(key_value_value, Keep)
key_value_error_free == OnCase(key_value_error, [n \in {3} |-> string_free])
key_value_result_own_store_error_free ==
    OnResult(key_value_result_own_store_error, Keep, key_value_error_free)
option_value_free == OnSome(option_value, key_value_value_free)
key_value_result_option_value_error_free ==
    OnResult(key_value_result_option_value_error, option_value_free, key_value_error_free)
\* Mutant: the strings in a list are left.
list_without_strings_free == Buffer(list_string, Keep)
list_string_free == Buffer(list_string, string_free)
key_value_result_list_string_error_free ==
    OnResult(key_value_result_list_string_error, list_string_free, key_value_error_free)
tuple2_value_f64_free == Fields(tuple2_value_f64, <<key_value_value_free, Keep>>)
list_tuple2_value_f64_free == Buffer(list_tuple2_value_f64, tuple2_value_f64_free)
key_value_result_list_tuple2_value_f64_error_free ==
    OnResult(key_value_result_list_tuple2_value_f64_error,
             list_tuple2_value_f64_free, key_value_error_free)
key_value_result_bool_error_free ==
    OnResult(key_value_result_bool_error, Keep, key_value_error_free)
cache_types_payload_free == Buffer(cache_types_payload, Keep)
cache_types_error_free == OnCase(cache_types_error, [n \in {2} |-> string_free])
cache_sync_payload_free == cache_types_payload_free
cache_sync_error_free == cache_types_error_free
option_payload_free == OnSome(option_payload, cache_sync_payload_free)
cache_sync_result_option_payload_error_free ==
    OnResult(cache_sync_result_option_payload_error, option_payload_free, cache_sync_error_free)
cache_sync_result_void_error_free ==
    OnResult(cache_sync_result_void_error, Keep, cache_sync_error_free)
cache_sync_result_bool_error_free ==
    OnResult(cache_sync_result_bool_error, Keep, cache_sync_error_free)
cache_sync_result_s64_error_free ==
    OnResult(cache_sync_result_s64_error, Keep, cache_sync_error_free)
cache_sync_result_u64_error_free ==
    OnResult(cache_sync_result_u64_error, Keep, cache_sync_error_free)
tuple2_string_string_free == Fields(tuple2_string_string, <<string_free, string_free>>)
list_tuple2_string_string_free == Buffer(list_tuple2_string_string, tuple2_string_string_free)
io_poll_list_borrow_pollable_free == Buffer(io_poll_list_borrow_pollable, Keep)
list_u32_free == Buffer(list_u32, Keep)
list_u8_free == Buffer(list_u8, Keep)
io_streams_result_list_u8_stream_error_free ==
    OnResult(io_streams_result_list_u8_stream_error, list_u8_free, Keep)
filesystem_types_directory_entry_free ==
    Fields(filesystem_types_directory_entry, <<Keep, string_free>>)
filesystem_types_result_tuple2_list_u8_bool_error_code_free ==
    Leave(filesystem_types_result_tuple2_list_u8_bool_error_code)
filesystem_types_result_string_error_code_free ==
    OnResult(filesystem_types_result_string_error_code, string_free, Keep)
filesystem_types_option_directory_entry_free ==
    OnSome(filesystem_types_option_directory_entry, filesystem_types_directory_entry_free)
filesystem_types_result_option_directory_entry_error_code_free ==
    OnResult(filesystem_types_result_option_directory_entry_error_code,
             filesystem_types_option_directory_entry_free, Keep)
filesystem_preopens_tuple2_own_descriptor_string_free ==
    Fields(filesystem_preopens_tuple2_own_descriptor_string, <<Keep, string_free>>)
filesystem_preopens_list_tuple2_own_descriptor_string_free ==
    Buffer(filesystem_preopens_list_tuple2_own_descriptor_string,
           filesystem_preopens_tuple2_own_descriptor_string_free)
sockets_udp_incoming_datagram_free ==
    Fields(sockets_udp_incoming_datagram, <<Leave(list_u8), Keep>>)
sockets_udp_outgoing_datagram_free ==
    Fields(sockets_udp_outgoing_datagram, <<Leave(list_u8), Keep>>)
sockets_udp_list_incoming_datagram_free ==
    Buffer(sockets_udp_list_incoming_datagram, sockets_udp_incoming_datagram_free)
sockets_udp_result_list_incoming_datagram_error_code_free ==
    OnResult(sockets_udp_result_list_incoming_datagram_error_code,
             sockets_udp_list_incoming_datagram_free, Keep)
sockets_udp_list_outgoing_datagram_free ==
    Buffer(sockets_udp_list_outgoing_datagram, sockets_udp_outgoing_datagram_free)
http_types_method_free == OnCase(http_types_method, [n \in {9} |-> string_free])
http_types_scheme_free == OnCase(http_types_scheme, [n \in {2} |-> string_free])
http_types_dns_error_payload_free ==
    Fields(http_types_dns_error_payload, <<Leave(option_string), Keep>>)
http_types_tls_alert_received_payload_free ==
    Fields(http_types_tls_alert_received_payload, <<Keep, Leave(option_string)>>)
http_types_field_size_payload_free ==
    Fields(http_types_field_size_payload, <<Leave(option_string), Keep>>)
http_types_option_field_size_payload_free ==
    OnSome(http_types_option_field_size_payload, http_types_field_size_payload_free)
http_types_error_code_free ==
    OnCase(http_types_error_code,
           [n \in {1, 14, 22, 24, 27, 30, 31, 32, 38} |->
               CASE n = 1 -> http_types_dns_error_payload_free
                 [] n = 14 -> http_types_tls_alert_received_payload_free
                 [] n = 22 -> http_types_option_field_size_payload_free
                 [] n \in {24, 27, 30} -> http_types_field_size_payload_free
                 [] n \in {31, 32, 38} -> Leave(option_string)])
http_types_field_key_free == string_free
http_types_field_name_free == http_types_field_key_free
http_types_field_value_free == Buffer(http_types_field_value, Keep)
tuple2_field_name_field_value_free ==
    Fields(tuple2_field_name_field_value,
           <<http_types_field_name_free, http_types_field_value_free>>)
list_tuple2_field_name_field_value_free ==
    Buffer(list_tuple2_field_name_field_value, tuple2_field_name_field_value_free)
list_field_value_free == Buffer(list_field_value, http_types_field_value_free)
http_types_option_scheme_free == OnSome(http_types_option_scheme, http_types_scheme_free)
http_types_result_own_outgoing_response_error_code_free ==
    OnResult(http_types_result_own_outgoing_response_error_code, Keep, http_types_error_code_free)
http_types_result_option_own_trailers_error_code_free ==
    OnResult(http_types_result_option_own_trailers_error_code, Keep, http_types_error_code_free)
http_types_result_result_option_own_trailers_error_code_void_free ==
    OnResult(http_types_result_result_option_own_trailers_error_code_void,
             http_types_result_option_own_trailers_error_code_free, Keep)
http_types_option_result_result_option_own_trailers_error_code_void_free ==
    OnSome(http_types_option_result_result_option_own_trailers_error_code_void,
           http_types_result_result_option_own_trailers_error_code_void_free)
http_types_result_void_error_code_free ==
    OnResult(http_types_result_void_error_code, Keep, http_types_error_code_free)
http_types_result_own_incoming_response_error_code_free ==
    OnResult(http_types_result_own_incoming_response_error_code, Keep, http_types_error_code_free)
http_types_result_result_own_incoming_response_error_code_void_free ==
    OnResult(http_types_result_result_own_incoming_response_error_code_void,
             http_types_result_own_incoming_response_error_code_free, Keep)
http_types_option_result_result_own_incoming_response_error_code_void_free ==
    OnSome(http_types_option_result_result_own_incoming_response_error_code_void,
           http_types_result_result_own_incoming_response_error_code_void_free)
http_types_option_error_code_free ==
    OnSome(http_types_option_error_code, http_types_error_code_free)
http_outgoing_handler_error_code_free == http_types_error_code_free
http_outgoing_handler_result_own_future_incoming_response_error_code_free ==
    OnResult(http_outgoing_handler_result_own_future_incoming_response_error_code,
             Keep, http_outgoing_handler_error_code_free)

gcore_helpers ==
    [string_free |-> string_free,
     option_string_free |-> option_string_free,
     secret_error_free |-> secret_error_free,
     secret_result_option_string_error_free |-> secret_result_option_string_error_free,
     key_value_value_free |-> key_value_value_free,
     key_value_error_free |-> key_value_error_free,
     key_value_result_own_store_error_free |-> key_value_result_own_store_error_free,
     option_value_free |-> option_value_free,
     key_value_result_option_value_error_free |-> key_value_result_option_value_error_free,
     list_string_free |-> list_string_free,
     key_value_result_list_string_error_free |-> key_value_result_list_string_error_free,
     tuple2_value_f64_free |-> tuple2_value_f64_free,
     list_tuple2_value_f64_free |-> list_tuple2_value_f64_free,
     key_value_result_list_tuple2_value_f64_error_free |->
         key_value_result_list_tuple2_value_f64_error_free,
     key_value_result_bool_error_free |-> key_value_result_bool_error_free,
     cache_types_payload_free |-> cache_types_payload_free,
     cache_types_error_free |-> cache_types_error_free,
     cache_sync_payload_free |-> cache_sync_payload_free,
     cache_sync_error_free |-> cache_sync_error_free,
     option_payload_free |-> option_payload_free,
     cache_sync_result_option_payload_error_free |-> cache_sync_result_option_payload_error_free,
     cache_sync_result_void_error_free |-> cache_sync_result_void_error_free,
     cache_sync_result_bool_error_free |-> cache_sync_result_bool_error_free,
     cache_sync_result_s64_error_free |-> cache_sync_result_s64_error_free,
     cache_sync_result_u64_error_free |-> cache_sync_result_u64_error_free,
     tuple2_string_string_free |-> tuple2_string_string_free,
     list_tuple2_string_string_free |-> list_tuple2_string_string_free,
     list_u32_free |-> list_u32_free,
     list_u8_free |-> list_u8_free]
wasi_helpers ==
    [io_poll_list_borrow_pollable_free |-> io_poll_list_borrow_pollable_free,
     io_streams_result_list_u8_stream_error_free |-> io_streams_result_list_u8_stream_error_free,
     filesystem_types_directory_entry_free |-> filesystem_types_directory_entry_free,
     filesystem_types_result_tuple2_list_u8_bool_error_code_free |->
         filesystem_types_result_tuple2_list_u8_bool_error_code_free,
     filesystem_types_result_string_error_code_free |->
         filesystem_types_result_string_error_code_free,
     filesystem_types_option_directory_entry_free |-> filesystem_types_option_directory_entry_free,
     filesystem_types_result_option_directory_entry_error_code_free |->
         filesystem_types_result_option_directory_entry_error_code_free,
     filesystem_preopens_tuple2_own_descriptor_string_free |->
         filesystem_preopens_tuple2_own_descriptor_string_free,
     filesystem_preopens_list_tuple2_own_descriptor_string_free |->
         filesystem_preopens_list_tuple2_own_descriptor_string_free,
     sockets_udp_incoming_datagram_free |-> sockets_udp_incoming_datagram_free,
     sockets_udp_outgoing_datagram_free |-> sockets_udp_outgoing_datagram_free,
     sockets_udp_list_incoming_datagram_free |-> sockets_udp_list_incoming_datagram_free,
     sockets_udp_result_list_incoming_datagram_error_code_free |->
         sockets_udp_result_list_incoming_datagram_error_code_free,
     sockets_udp_list_outgoing_datagram_free |-> sockets_udp_list_outgoing_datagram_free,
     http_types_method_free |-> http_types_method_free,
     http_types_scheme_free |-> http_types_scheme_free,
     http_types_dns_error_payload_free |-> http_types_dns_error_payload_free,
     http_types_tls_alert_received_payload_free |-> http_types_tls_alert_received_payload_free,
     http_types_field_size_payload_free |-> http_types_field_size_payload_free,
     http_types_option_field_size_payload_free |-> http_types_option_field_size_payload_free,
     http_types_error_code_free |-> http_types_error_code_free,
     http_types_field_key_free |-> http_types_field_key_free,
     http_types_field_name_free |-> http_types_field_name_free,
     http_types_field_value_free |-> http_types_field_value_free,
     tuple2_field_name_field_value_free |-> tuple2_field_name_field_value_free,
     list_tuple2_field_name_field_value_free |-> list_tuple2_field_name_field_value_free,
     list_field_value_free |-> list_field_value_free,
     http_types_option_scheme_free |-> http_types_option_scheme_free,
     http_types_result_own_outgoing_response_error_code_free |->
         http_types_result_own_outgoing_response_error_code_free,
     http_types_result_option_own_trailers_error_code_free |->
         http_types_result_option_own_trailers_error_code_free,
     http_types_result_result_option_own_trailers_error_code_void_free |->
         http_types_result_result_option_own_trailers_error_code_void_free,
     http_types_option_result_result_option_own_trailers_error_code_void_free |->
         http_types_option_result_result_option_own_trailers_error_code_void_free,
     http_types_result_void_error_code_free |-> http_types_result_void_error_code_free,
     http_types_result_own_incoming_response_error_code_free |->
         http_types_result_own_incoming_response_error_code_free,
     http_types_result_result_own_incoming_response_error_code_void_free |->
         http_types_result_result_own_incoming_response_error_code_void_free,
     http_types_option_result_result_own_incoming_response_error_code_void_free |->
         http_types_option_result_result_own_incoming_response_error_code_void_free,
     http_types_option_error_code_free |-> http_types_option_error_code_free,
     http_outgoing_handler_error_code_free |-> http_outgoing_handler_error_code_free,
     http_outgoing_handler_result_own_future_incoming_response_error_code_free |->
         http_outgoing_handler_result_own_future_incoming_response_error_code_free]
=============================================================================
