---------------------------- MODULE BindingsTypes -----------------------------
(***************************************************************************)
(* The types of bindings.h that the adapters and the _free helpers use,    *)
(* named as there without the prefix of their package.                     *)
(***************************************************************************)
EXTENDS WitAbi

cache_types_payload == List(Scalar(1))
io_poll_list_borrow_pollable == List(Handle)
list_u8 == List(Scalar(1))
filesystem_types_advice == Enum
filesystem_types_path_flags == Enum
filesystem_types_open_flags == Enum
filesystem_types_descriptor_flags == Enum
sockets_network_ipv4_address == Record(<<Scalar(1), Scalar(1), Scalar(1), Scalar(1)>>)
sockets_network_ipv4_socket_address == Record(<<Scalar(2), sockets_network_ipv4_address>>)
sockets_network_ipv6_address ==
    Record(<<Scalar(2), Scalar(2), Scalar(2), Scalar(2), Scalar(2), Scalar(2), Scalar(2),
             Scalar(2)>>)
sockets_network_ipv6_socket_address ==
    Record(<<Scalar(2), Scalar(4), sockets_network_ipv6_address, Scalar(4)>>)
sockets_network_ip_socket_address ==
    Variant(<<sockets_network_ipv4_socket_address, sockets_network_ipv6_socket_address>>)
sockets_udp_option_ip_socket_address == Option(sockets_network_ip_socket_address)
sockets_udp_outgoing_datagram == Record(<<list_u8, sockets_udp_option_ip_socket_address>>)
sockets_udp_list_outgoing_datagram == List(sockets_udp_outgoing_datagram)
sockets_network_ip_address_family == Enum
sockets_tcp_shutdown_type == Enum
http_types_field_value == List(Scalar(1))
tuple2_field_name_field_value == Record(<<String, http_types_field_value>>)
list_tuple2_field_name_field_value == List(tuple2_field_name_field_value)
list_field_value == List(http_types_field_value)
option_string == Option(String)
secret_error == Variant(<<Void, Void, String>>)
secret_result_option_string_error == Result(option_string, secret_error)
key_value_error == Variant(<<Void, Void, Void, String>>)
key_value_result_own_store_error == Result(Handle, key_value_error)
key_value_value == List(Scalar(1))
option_value == Option(key_value_value)
key_value_result_option_value_error == Result(option_value, key_value_error)
list_string == List(String)
key_value_result_list_string_error == Result(list_string, key_value_error)
tuple2_value_f64 == Record(<<key_value_value, Scalar(8)>>)
list_tuple2_value_f64 == List(tuple2_value_f64)
key_value_result_list_tuple2_value_f64_error == Result(list_tuple2_value_f64, key_value_error)
key_value_result_bool_error == Result(Bool, key_value_error)
option_payload == Option(cache_types_payload)
cache_types_error == Variant(<<Void, Void, String>>)
cache_sync_result_option_payload_error == Result(option_payload, cache_types_error)
cache_sync_result_void_error == Result(Void, cache_types_error)
cache_sync_result_bool_error == Result(Bool, cache_types_error)
cache_sync_result_s64_error == Result(Scalar(8), cache_types_error)
cache_sync_result_u64_error == Result(Scalar(8), cache_types_error)
tuple2_string_string == Record(<<String, String>>)
list_tuple2_string_string == List(tuple2_string_string)
list_u32 == List(Scalar(4))
io_streams_stream_error == Variant(<<Handle, Void>>)
io_streams_result_list_u8_stream_error == Result(list_u8, io_streams_stream_error)
io_streams_result_u64_stream_error == Result(Scalar(8), io_streams_stream_error)
io_streams_result_void_stream_error == Result(Void, io_streams_stream_error)
cli_terminal_stdin_option_own_terminal_input == Option(Handle)
cli_terminal_stdout_option_own_terminal_output == Option(Handle)
cli_terminal_stderr_option_own_terminal_output == Option(Handle)
clocks_wall_clock_datetime == Record(<<Scalar(8), Scalar(4)>>)
filesystem_types_error_code == Enum
filesystem_types_result_own_input_stream_error_code == Result(Handle, filesystem_types_error_code)
filesystem_types_result_own_output_stream_error_code ==
    Result(Handle, filesystem_types_error_code)
filesystem_types_result_void_error_code == Result(Void, filesystem_types_error_code)
filesystem_types_result_descriptor_flags_error_code ==
    Result(filesystem_types_descriptor_flags, filesystem_types_error_code)
filesystem_types_descriptor_type == Enum
filesystem_types_result_descriptor_type_error_code ==
    Result(filesystem_types_descriptor_type, filesystem_types_error_code)
tuple2_list_u8_bool == Record(<<list_u8, Bool>>)
filesystem_types_result_tuple2_list_u8_bool_error_code ==
    Result(tuple2_list_u8_bool, filesystem_types_error_code)
filesystem_types_result_filesize_error_code == Result(Scalar(8), filesystem_types_error_code)
filesystem_types_result_own_directory_entry_stream_error_code ==
    Result(Handle, filesystem_types_error_code)
filesystem_types_option_datetime == Option(clocks_wall_clock_datetime)
filesystem_types_descriptor_stat ==
    Record(<<filesystem_types_descriptor_type, Scalar(8), Scalar(8),
             filesystem_types_option_datetime, filesystem_types_option_datetime,
             filesystem_types_option_datetime>>)
filesystem_types_result_descriptor_stat_error_code ==
    Result(filesystem_types_descriptor_stat, filesystem_types_error_code)
filesystem_types_result_own_descriptor_error_code == Result(Handle, filesystem_types_error_code)
filesystem_types_result_string_error_code == Result(String, filesystem_types_error_code)
filesystem_types_metadata_hash_value == Record(<<Scalar(8), Scalar(8)>>)
filesystem_types_result_metadata_hash_value_error_code ==
    Result(filesystem_types_metadata_hash_value, filesystem_types_error_code)
filesystem_types_directory_entry == Record(<<filesystem_types_descriptor_type, String>>)
filesystem_types_option_directory_entry == Option(filesystem_types_directory_entry)
filesystem_types_result_option_directory_entry_error_code ==
    Result(filesystem_types_option_directory_entry, filesystem_types_error_code)
filesystem_types_option_error_code == Option(filesystem_types_error_code)
filesystem_preopens_tuple2_own_descriptor_string == Record(<<Handle, String>>)
filesystem_preopens_list_tuple2_own_descriptor_string ==
    List(filesystem_preopens_tuple2_own_descriptor_string)
sockets_network_error_code == Enum
sockets_udp_result_void_error_code == Result(Void, sockets_network_error_code)
sockets_udp_tuple2_own_incoming_datagram_stream_own_outgoing_datagram_stream ==
    Record(<<Handle, Handle>>)
sockets_udp_result_tuple2_own_incoming_datagram_stream_own_outgoing_datagram_stream_error_code ==
    Result(sockets_udp_tuple2_own_incoming_datagram_stream_own_outgoing_datagram_stream,
           sockets_network_error_code)
sockets_udp_result_ip_socket_address_error_code ==
    Result(sockets_network_ip_socket_address, sockets_network_error_code)
sockets_udp_result_u8_error_code == Result(Scalar(1), sockets_network_error_code)
sockets_udp_result_u64_error_code == Result(Scalar(8), sockets_network_error_code)
sockets_udp_incoming_datagram == Record(<<list_u8, sockets_network_ip_socket_address>>)
sockets_udp_list_incoming_datagram == List(sockets_udp_incoming_datagram)
sockets_udp_result_list_incoming_datagram_error_code ==
    Result(sockets_udp_list_incoming_datagram, sockets_network_error_code)
sockets_udp_create_socket_result_own_udp_socket_error_code ==
    Result(Handle, sockets_network_error_code)
sockets_tcp_result_void_error_code == Result(Void, sockets_network_error_code)
sockets_tcp_tuple2_own_input_stream_own_output_stream == Record(<<Handle, Handle>>)
sockets_tcp_result_tuple2_own_input_stream_own_output_stream_error_code ==
    Result(sockets_tcp_tuple2_own_input_stream_own_output_stream, sockets_network_error_code)
sockets_tcp_tuple3_own_tcp_socket_own_input_stream_own_output_stream ==
    Record(<<Handle, Handle, Handle>>)
sockets_tcp_result_tuple3_own_tcp_socket_own_input_stream_own_output_stream_error_code ==
    Result(sockets_tcp_tuple3_own_tcp_socket_own_input_stream_own_output_stream,
           sockets_network_error_code)
sockets_tcp_result_ip_socket_address_error_code ==
    Result(sockets_network_ip_socket_address, sockets_network_error_code)
sockets_tcp_result_bool_error_code == Result(Bool, sockets_network_error_code)
sockets_tcp_result_duration_error_code == Result(Scalar(8), sockets_network_error_code)
sockets_tcp_result_u32_error_code == Result(Scalar(4), sockets_network_error_code)
sockets_tcp_result_u8_error_code == Result(Scalar(1), sockets_network_error_code)
sockets_tcp_result_u64_error_code == Result(Scalar(8), sockets_network_error_code)
sockets_tcp_create_socket_result_own_tcp_socket_error_code ==
    Result(Handle, sockets_network_error_code)
sockets_network_ip_address ==
    Variant(<<sockets_network_ipv4_address, sockets_network_ipv6_address>>)
sockets_ip_name_lookup_option_ip_address == Option(sockets_network_ip_address)
sockets_ip_name_lookup_result_option_ip_address_error_code ==
    Result(sockets_ip_name_lookup_option_ip_address, sockets_network_error_code)
sockets_ip_name_lookup_result_own_resolve_address_stream_error_code ==
    Result(Handle, sockets_network_error_code)
tuple2_u64_u64 == Record(<<Scalar(8), Scalar(8)>>)
http_types_header_error == Variant(<<Void, Void, Void>>)
http_types_result_own_fields_header_error == Result(Handle, http_types_header_error)
http_types_result_void_header_error == Result(Void, http_types_header_error)
http_types_method == Variant(<<Void, Void, Void, Void, Void, Void, Void, Void, Void, String>>)
http_types_scheme == Variant(<<Void, Void, String>>)
http_types_option_scheme == Option(http_types_scheme)
http_types_result_own_incoming_body_void == Result(Handle, Void)
http_types_result_own_outgoing_body_void == Result(Handle, Void)
option_duration == Option(Scalar(8))
http_types_result_own_input_stream_void == Result(Handle, Void)
http_types_option_own_trailers == Option(Handle)
option_u16 == Option(Scalar(2))
http_types_dns_error_payload == Record(<<option_string, option_u16>>)
option_u8 == Option(Scalar(1))
http_types_tls_alert_received_payload == Record(<<option_u8, option_string>>)
option_u64 == Option(Scalar(8))
option_u32 == Option(Scalar(4))
http_types_field_size_payload == Record(<<option_string, option_u32>>)
http_types_option_field_size_payload == Option(http_types_field_size_payload)
http_types_error_code ==
    Variant(<<Void, http_types_dns_error_payload, Void, Void, Void, Void, Void, Void,
              Void, Void, Void, Void, Void, Void, http_types_tls_alert_received_payload, Void,
              Void, option_u64, Void, Void, Void, option_u32,
              http_types_option_field_size_payload, option_u32, http_types_field_size_payload,
              Void, option_u32, http_types_field_size_payload, option_u64, option_u32,
              http_types_field_size_payload, option_string, option_string, Void, Void, Void, Void,
              Void, option_string>>)
http_types_result_option_own_trailers_error_code ==
    Result(http_types_option_own_trailers, http_types_error_code)
http_types_result_result_option_own_trailers_error_code_void ==
    Result(http_types_result_option_own_trailers_error_code, Void)
http_types_option_result_result_option_own_trailers_error_code_void ==
    Option(http_types_result_result_option_own_trailers_error_code_void)
http_types_result_own_output_stream_void == Result(Handle, Void)
http_types_result_void_error_code == Result(Void, http_types_error_code)
http_types_result_own_incoming_response_error_code == Result(Handle, http_types_error_code)
http_types_result_result_own_incoming_response_error_code_void ==
    Result(http_types_result_own_incoming_response_error_code, Void)
http_types_option_result_result_own_incoming_response_error_code_void ==
    Option(http_types_result_result_own_incoming_response_error_code_void)
http_types_option_error_code == Option(http_types_error_code)
http_outgoing_handler_result_own_future_incoming_response_error_code ==
    Result(Handle, http_types_error_code)
filesystem_types_new_timestamp == Variant(<<Void, Void, clocks_wall_clock_datetime>>)
http_outgoing_handler_option_own_request_options == Option(Handle)
http_types_result_own_outgoing_response_error_code == Result(Handle, http_types_error_code)
=============================================================================
