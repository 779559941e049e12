------------------------------ MODULE WasiCalls -------------------------------
(***************************************************************************)
(* The adapters of bindings.c for the imports of WASI that answer through  *)
(* an area of memory.  An address and an error code of HTTP are read by    *)
(* the same code in each; so is an address passed on as an argument.       *)
(***************************************************************************)
EXTENDS BindingsC, BindingsTypes

stream_error_at(o) == Switch(o, <<Word(o + 4), None>>)
header_error_at(o) == Switch(o, <<None, None, None>>)
method_at(o) == Switch(o, [n \in 1 .. 10 |-> IF n - 1 = 9 THEN Span(o + 4) ELSE None])
ip_socket_address_at(o) ==
    LET p == o + 4
    IN Switch(o, <<Struct(<<Half(p), Struct([k \in 1 .. 4 |-> Byte(p + 1 + k)])>>),
                   Struct(<<Half(p), Word(p + 4),
                       Struct([k \in 1 .. 8 |-> Half(p + 6 + 2 * k)]), Word(p + 24)>>)>>)
\* The payload of an error code is at p.
http_error_code_at(o) ==
    LET p == o + 8
        option(load) == Switch(p, <<None, load>>)
        field_size(q) ==
            Struct(<<Switch(q, <<None, Span(q + 4)>>), Switch(q + 12, <<None, Word(q + 16)>>)>>)
    IN Switch(o, [n \in 1 .. 39 |->
         CASE n - 1 = 1 -> Struct(<<option(Span(p + 4)), Switch(p + 12, <<None, Half(p + 14)>>)>>)
           [] n - 1 = 14 -> Struct(<<option(Byte(p + 1)), Switch(p + 4, <<None, Span(p + 8)>>)>>)
           [] n - 1 \in {17, 28} -> option(Long(p + 8))
           [] n - 1 \in {21, 23, 26, 29} -> option(Word(p + 4))
           [] n - 1 = 22 -> option(field_size(p + 4))
           [] n - 1 \in {24, 27, 30} -> field_size(p)
           [] n - 1 \in {31, 32, 38} -> option(Span(p + 4))
           [] OTHER -> None])

Timestamp(i) == ByCase(<<i>>, 3, <<<<>>, <<>>, <<ItAt(<<1>>), ItAt(<<2>>)>>>>)
address_rows ==
    <<<<ItAt(<<1>>), ItAt(<<2, 1>>), ItAt(<<2, 2>>), ItAt(<<2, 3>>), ItAt(<<2, 4>>)>>,
      <<ItAt(<<1>>), ItAt(<<2>>), ItAt(<<3, 1>>), ItAt(<<3, 2>>), ItAt(<<3, 3>>), ItAt(<<3, 4>>),
        ItAt(<<3, 5>>), ItAt(<<3, 6>>), ItAt(<<3, 7>>), ItAt(<<3, 8>>), ItAt(<<4>>)>>>>
Address(i) == ByCase(<<i>>, 12, address_rows)
OptionalAddress(i) == ByCase(<<i>>, 13, <<<<>>, <<ByCase(<<>>, 12, address_rows)>>>>)

cli_environment_get_environment == Call(<<>>, <<>>, list_tuple2_string_string, 8, 4, Span(0))
cli_environment_get_arguments == Call(<<>>, <<>>, list_string, 8, 4, Span(0))
cli_environment_initial_cwd ==
    Call(<<>>, <<>>, option_string, 12, 4, Switch(0, <<None, Span(4)>>))
io_error_method_error_to_debug_string == Call(<<Handle>>, <<It(1)>>, String, 8, 4, Span(0))
io_poll_poll ==
    Call(<<io_poll_list_borrow_pollable>>, <<Ptr(1), Count(1)>>, list_u32, 8, 4, Span(0))
io_streams_method_input_stream_read ==
    Call(<<Handle, Scalar(8)>>, <<It(1), It(2)>>, io_streams_result_list_u8_stream_error, 12, 4,
         Switch(0, <<Span(4), stream_error_at(4)>>))
io_streams_method_input_stream_blocking_read ==
    Call(<<Handle, Scalar(8)>>, <<It(1), It(2)>>, io_streams_result_list_u8_stream_error, 12, 4,
         Switch(0, <<Span(4), stream_error_at(4)>>))
io_streams_method_input_stream_skip ==
    Call(<<Handle, Scalar(8)>>, <<It(1), It(2)>>, io_streams_result_u64_stream_error, 16, 8,
         Switch(0, <<Long(8), stream_error_at(8)>>))
io_streams_method_input_stream_blocking_skip ==
    Call(<<Handle, Scalar(8)>>, <<It(1), It(2)>>, io_streams_result_u64_stream_error, 16, 8,
         Switch(0, <<Long(8), stream_error_at(8)>>))
io_streams_method_output_stream_check_write ==
    Call(<<Handle>>, <<It(1)>>, io_streams_result_u64_stream_error, 16, 8,
         Switch(0, <<Long(8), stream_error_at(8)>>))
io_streams_method_output_stream_write ==
    Call(<<Handle, list_u8>>, <<It(1), Ptr(2), Count(2)>>,
         io_streams_result_void_stream_error, 12, 4, Switch(0, <<None, stream_error_at(4)>>))
io_streams_method_output_stream_blocking_write_and_flush ==
    Call(<<Handle, list_u8>>, <<It(1), Ptr(2), Count(2)>>,
         io_streams_result_void_stream_error, 12, 4, Switch(0, <<None, stream_error_at(4)>>))
io_streams_method_output_stream_flush ==
    Call(<<Handle>>, <<It(1)>>, io_streams_result_void_stream_error, 12, 4,
         Switch(0, <<None, stream_error_at(4)>>))
io_streams_method_output_stream_blocking_flush ==
    Call(<<Handle>>, <<It(1)>>, io_streams_result_void_stream_error, 12, 4,
         Switch(0, <<None, stream_error_at(4)>>))
io_streams_method_output_stream_write_zeroes ==
    Call(<<Handle, Scalar(8)>>, <<It(1), It(2)>>, io_streams_result_void_stream_error, 12, 4,
         Switch(0, <<None, stream_error_at(4)>>))
io_streams_method_output_stream_blocking_write_zeroes_and_flush ==
    Call(<<Handle, Scalar(8)>>, <<It(1), It(2)>>, io_streams_result_void_stream_error, 12, 4,
         Switch(0, <<None, stream_error_at(4)>>))
io_streams_method_output_stream_splice ==
    Call(<<Handle, Handle, Scalar(8)>>, <<It(1), It(2), It(3)>>,
         io_streams_result_u64_stream_error, 16, 8, Switch(0, <<Long(8), stream_error_at(8)>>))
io_streams_method_output_stream_blocking_splice ==
    Call(<<Handle, Handle, Scalar(8)>>, <<It(1), It(2), It(3)>>,
         io_streams_result_u64_stream_error, 16, 8, Switch(0, <<Long(8), stream_error_at(8)>>))
cli_terminal_stdin_get_terminal_stdin ==
    Call(<<>>, <<>>, cli_terminal_stdin_option_own_terminal_input, 8, 4,
         Switch(0, <<None, Word(4)>>))
cli_terminal_stdout_get_terminal_stdout ==
    Call(<<>>, <<>>, cli_terminal_stdout_option_own_terminal_output, 8, 4,
         Switch(0, <<None, Word(4)>>))
cli_terminal_stderr_get_terminal_stderr ==
    Call(<<>>, <<>>, cli_terminal_stderr_option_own_terminal_output, 8, 4,
         Switch(0, <<None, Word(4)>>))
clocks_wall_clock_now ==
    Call(<<>>, <<>>, clocks_wall_clock_datetime, 16, 8, Struct(<<Long(0), Word(8)>>))
clocks_wall_clock_resolution ==
    Call(<<>>, <<>>, clocks_wall_clock_datetime, 16, 8, Struct(<<Long(0), Word(8)>>))
filesystem_types_method_descriptor_read_via_stream ==
    Call(<<Handle, Scalar(8)>>, <<It(1), It(2)>>,
         filesystem_types_result_own_input_stream_error_code, 8, 4,
         Switch(0, <<Word(4), Byte(4)>>))
filesystem_types_method_descriptor_write_via_stream ==
    Call(<<Handle, Scalar(8)>>, <<It(1), It(2)>>,
         filesystem_types_result_own_output_stream_error_code, 8, 4,
         Switch(0, <<Word(4), Byte(4)>>))
filesystem_types_method_descriptor_append_via_stream ==
    Call(<<Handle>>, <<It(1)>>, filesystem_types_result_own_output_stream_error_code, 8, 4,
         Switch(0, <<Word(4), Byte(4)>>))
filesystem_types_method_descriptor_advise ==
    Call(<<Handle, Scalar(8), Scalar(8), filesystem_types_advice>>, <<It(1), It(2), It(3),
           It(4)>>,
         filesystem_types_result_void_error_code, 2, 1, Switch(0, <<None, Byte(1)>>))
filesystem_types_method_descriptor_sync_data ==
    Call(<<Handle>>, <<It(1)>>, filesystem_types_result_void_error_code, 2, 1,
         Switch(0, <<None, Byte(1)>>))
filesystem_types_method_descriptor_get_flags ==
    Call(<<Handle>>, <<It(1)>>, filesystem_types_result_descriptor_flags_error_code, 2, 1,
         Switch(0, <<Byte(1), Byte(1)>>))
filesystem_types_method_descriptor_get_type ==
    Call(<<Handle>>, <<It(1)>>, filesystem_types_result_descriptor_type_error_code, 2, 1,
         Switch(0, <<Byte(1), Byte(1)>>))
filesystem_types_method_descriptor_set_size ==
    Call(<<Handle, Scalar(8)>>, <<It(1), It(2)>>, filesystem_types_result_void_error_code, 2, 1,
         Switch(0, <<None, Byte(1)>>))
filesystem_types_method_descriptor_set_times ==
    Call(<<Handle, filesystem_types_new_timestamp, filesystem_types_new_timestamp>>, <<It(1),
           Timestamp(2), Timestamp(3)>>,
         filesystem_types_result_void_error_code, 2, 1, Switch(0, <<None, Byte(1)>>))
filesystem_types_method_descriptor_read ==
    Call(<<Handle, Scalar(8), Scalar(8)>>, <<It(1), It(2), It(3)>>,
         filesystem_types_result_tuple2_list_u8_bool_error_code, 16, 4,
         Switch(0, <<Struct(<<Span(4), Byte(12)>>), Byte(4)>>))
filesystem_types_method_descriptor_write ==
    Call(<<Handle, list_u8, Scalar(8)>>, <<It(1), Ptr(2), Count(2), It(3)>>,
         filesystem_types_result_filesize_error_code, 16, 8, Switch(0, <<Long(8), Byte(8)>>))
filesystem_types_method_descriptor_read_directory ==
    Call(<<Handle>>, <<It(1)>>,
         filesystem_types_result_own_directory_entry_stream_error_code, 8, 4,
         Switch(0, <<Word(4), Byte(4)>>))
filesystem_types_method_descriptor_sync ==
    Call(<<Handle>>, <<It(1)>>, filesystem_types_result_void_error_code, 2, 1,
         Switch(0, <<None, Byte(1)>>))
filesystem_types_method_descriptor_create_directory_at ==
    Call(<<Handle, String>>, <<It(1), Ptr(2), Count(2)>>,
         filesystem_types_result_void_error_code, 2, 1, Switch(0, <<None, Byte(1)>>))
filesystem_types_method_descriptor_stat ==
    Call(<<Handle>>, <<It(1)>>, filesystem_types_result_descriptor_stat_error_code, 104, 8,
         Switch(0, <<Struct(<<Byte(8), Long(16), Long(24), Switch(32, <<None, Struct(<<Long(40),
           Word(48)>>)>>), Switch(56, <<None, Struct(<<Long(64), Word(72)>>)>>), Switch(80,
           <<None, Struct(<<Long(88), Word(96)>>)>>)>>), Byte(8)>>))
filesystem_types_method_descriptor_stat_at ==
    Call(<<Handle, filesystem_types_path_flags, String>>, <<It(1), It(2), Ptr(3), Count(3)>>,
         filesystem_types_result_descriptor_stat_error_code, 104, 8,
         Switch(0, <<Struct(<<Byte(8), Long(16), Long(24), Switch(32, <<None, Struct(<<Long(40),
           Word(48)>>)>>), Switch(56, <<None, Struct(<<Long(64), Word(72)>>)>>), Switch(80,
           <<None, Struct(<<Long(88), Word(96)>>)>>)>>), Byte(8)>>))
filesystem_types_method_descriptor_set_times_at ==
    Call(<<Handle, filesystem_types_path_flags, String, filesystem_types_new_timestamp,
           filesystem_types_new_timestamp>>, <<It(1), It(2), Ptr(3), Count(3), Timestamp(4),
           Timestamp(5)>>,
         filesystem_types_result_void_error_code, 2, 1, Switch(0, <<None, Byte(1)>>))
filesystem_types_method_descriptor_link_at ==
    Call(<<Handle, filesystem_types_path_flags, String, Handle, String>>, <<It(1), It(2),
           Ptr(3), Count(3), It(4), Ptr(5), Count(5)>>,
         filesystem_types_result_void_error_code, 2, 1, Switch(0, <<None, Byte(1)>>))
filesystem_types_method_descriptor_open_at ==
    Call(<<Handle, filesystem_types_path_flags, String, filesystem_types_open_flags,
           filesystem_types_descriptor_flags>>, <<It(1), It(2), Ptr(3), Count(3), It(4), It(5)>>,
         filesystem_types_result_own_descriptor_error_code, 8, 4,
         Switch(0, <<Word(4), Byte(4)>>))
filesystem_types_method_descriptor_readlink_at ==
    Call(<<Handle, String>>, <<It(1), Ptr(2), Count(2)>>,
         filesystem_types_result_string_error_code, 12, 4, Switch(0, <<Span(4), Byte(4)>>))
filesystem_types_method_descriptor_remove_directory_at ==
    Call(<<Handle, String>>, <<It(1), Ptr(2), Count(2)>>,
         filesystem_types_result_void_error_code, 2, 1, Switch(0, <<None, Byte(1)>>))
filesystem_types_method_descriptor_rename_at ==
    Call(<<Handle, String, Handle, String>>, <<It(1), Ptr(2), Count(2), It(3), Ptr(4), Count(4)>>,
         filesystem_types_result_void_error_code, 2, 1, Switch(0, <<None, Byte(1)>>))
filesystem_types_method_descriptor_symlink_at ==
    Call(<<Handle, String, String>>, <<It(1), Ptr(2), Count(2), Ptr(3), Count(3)>>,
         filesystem_types_result_void_error_code, 2, 1, Switch(0, <<None, Byte(1)>>))
filesystem_types_method_descriptor_unlink_file_at ==
    Call(<<Handle, String>>, <<It(1), Ptr(2), Count(2)>>,
         filesystem_types_result_void_error_code, 2, 1, Switch(0, <<None, Byte(1)>>))
filesystem_types_method_descriptor_metadata_hash ==
    Call(<<Handle>>, <<It(1)>>, filesystem_types_result_metadata_hash_value_error_code, 24, 8,
         Switch(0, <<Struct(<<Long(8), Long(16)>>), Byte(8)>>))
filesystem_types_method_descriptor_metadata_hash_at ==
    Call(<<Handle, filesystem_types_path_flags, String>>, <<It(1), It(2), Ptr(3), Count(3)>>,
         filesystem_types_result_metadata_hash_value_error_code, 24, 8,
         Switch(0, <<Struct(<<Long(8), Long(16)>>), Byte(8)>>))
filesystem_types_method_directory_entry_stream_read_directory_entry ==
    Call(<<Handle>>, <<It(1)>>, filesystem_types_result_option_directory_entry_error_code, 20, 4,
         Switch(0, <<Switch(4, <<None, Struct(<<Byte(8), Span(12)>>)>>), Byte(4)>>))
filesystem_types_filesystem_error_code ==
    Call(<<Handle>>, <<It(1)>>, filesystem_types_option_error_code, 2, 1,
         Switch(0, <<None, Byte(1)>>))
filesystem_preopens_get_directories ==
    Call(<<>>, <<>>, filesystem_preopens_list_tuple2_own_descriptor_string, 8, 4, Span(0))
sockets_udp_method_udp_socket_start_bind ==
    Call(<<Handle, Handle, sockets_network_ip_socket_address>>, <<It(1), It(2), Address(3)>>,
         sockets_udp_result_void_error_code, 2, 1, Switch(0, <<None, Byte(1)>>))
sockets_udp_method_udp_socket_finish_bind ==
    Call(<<Handle>>, <<It(1)>>, sockets_udp_result_void_error_code, 2, 1,
         Switch(0, <<None, Byte(1)>>))
sockets_udp_method_udp_socket_stream ==
    Call(<<Handle, sockets_udp_option_ip_socket_address>>, <<It(1), OptionalAddress(2)>>,
         sockets_udp_result_tuple2_own_incoming_datagram_stream_own_outgoing_datagram_stream_error_code,
           12, 4,
         Switch(0, <<Struct(<<Word(4), Word(8)>>), Byte(4)>>))
sockets_udp_method_udp_socket_local_address ==
    Call(<<Handle>>, <<It(1)>>, sockets_udp_result_ip_socket_address_error_code, 36, 4,
         Switch(0, <<ip_socket_address_at(4), Byte(4)>>))
sockets_udp_method_udp_socket_remote_address ==
    Call(<<Handle>>, <<It(1)>>, sockets_udp_result_ip_socket_address_error_code, 36, 4,
         Switch(0, <<ip_socket_address_at(4), Byte(4)>>))
sockets_udp_method_udp_socket_unicast_hop_limit ==
    Call(<<Handle>>, <<It(1)>>, sockets_udp_result_u8_error_code, 2, 1,
         Switch(0, <<Byte(1), Byte(1)>>))
sockets_udp_method_udp_socket_set_unicast_hop_limit ==
    Call(<<Handle, Scalar(1)>>, <<It(1), It(2)>>, sockets_udp_result_void_error_code, 2, 1,
         Switch(0, <<None, Byte(1)>>))
sockets_udp_method_udp_socket_receive_buffer_size ==
    Call(<<Handle>>, <<It(1)>>, sockets_udp_result_u64_error_code, 16, 8,
         Switch(0, <<Long(8), Byte(8)>>))
sockets_udp_method_udp_socket_set_receive_buffer_size ==
    Call(<<Handle, Scalar(8)>>, <<It(1), It(2)>>, sockets_udp_result_void_error_code, 2, 1,
         Switch(0, <<None, Byte(1)>>))
sockets_udp_method_udp_socket_send_buffer_size ==
    Call(<<Handle>>, <<It(1)>>, sockets_udp_result_u64_error_code, 16, 8,
         Switch(0, <<Long(8), Byte(8)>>))
sockets_udp_method_udp_socket_set_send_buffer_size ==
    Call(<<Handle, Scalar(8)>>, <<It(1), It(2)>>, sockets_udp_result_void_error_code, 2, 1,
         Switch(0, <<None, Byte(1)>>))
sockets_udp_method_incoming_datagram_stream_receive ==
    Call(<<Handle, Scalar(8)>>, <<It(1), It(2)>>,
         sockets_udp_result_list_incoming_datagram_error_code, 12, 4,
         Switch(0, <<Span(4), Byte(4)>>))
sockets_udp_method_outgoing_datagram_stream_check_send ==
    Call(<<Handle>>, <<It(1)>>, sockets_udp_result_u64_error_code, 16, 8,
         Switch(0, <<Long(8), Byte(8)>>))
sockets_udp_method_outgoing_datagram_stream_send ==
    Call(<<Handle, sockets_udp_list_outgoing_datagram>>, <<It(1), Ptr(2), Count(2)>>,
         sockets_udp_result_u64_error_code, 16, 8, Switch(0, <<Long(8), Byte(8)>>))
sockets_udp_create_socket_create_udp_socket ==
    Call(<<sockets_network_ip_address_family>>, <<It(1)>>,
         sockets_udp_create_socket_result_own_udp_socket_error_code, 8, 4,
         Switch(0, <<Word(4), Byte(4)>>))
sockets_tcp_method_tcp_socket_start_bind ==
    Call(<<Handle, Handle, sockets_network_ip_socket_address>>, <<It(1), It(2), Address(3)>>,
         sockets_tcp_result_void_error_code, 2, 1, Switch(0, <<None, Byte(1)>>))
sockets_tcp_method_tcp_socket_finish_bind ==
    Call(<<Handle>>, <<It(1)>>, sockets_tcp_result_void_error_code, 2, 1,
         Switch(0, <<None, Byte(1)>>))
sockets_tcp_method_tcp_socket_start_connect ==
    Call(<<Handle, Handle, sockets_network_ip_socket_address>>, <<It(1), It(2), Address(3)>>,
         sockets_tcp_result_void_error_code, 2, 1, Switch(0, <<None, Byte(1)>>))
sockets_tcp_method_tcp_socket_finish_connect ==
    Call(<<Handle>>, <<It(1)>>,
         sockets_tcp_result_tuple2_own_input_stream_own_output_stream_error_code, 12, 4,
         Switch(0, <<Struct(<<Word(4), Word(8)>>), Byte(4)>>))
sockets_tcp_method_tcp_socket_start_listen ==
    Call(<<Handle>>, <<It(1)>>, sockets_tcp_result_void_error_code, 2, 1,
         Switch(0, <<None, Byte(1)>>))
sockets_tcp_method_tcp_socket_finish_listen ==
    Call(<<Handle>>, <<It(1)>>, sockets_tcp_result_void_error_code, 2, 1,
         Switch(0, <<None, Byte(1)>>))
sockets_tcp_method_tcp_socket_accept ==
    Call(<<Handle>>, <<It(1)>>,
         sockets_tcp_result_tuple3_own_tcp_socket_own_input_stream_own_output_stream_error_code,
           16, 4,
         Switch(0, <<Struct(<<Word(4), Word(8), Word(12)>>), Byte(4)>>))
sockets_tcp_method_tcp_socket_local_address ==
    Call(<<Handle>>, <<It(1)>>, sockets_tcp_result_ip_socket_address_error_code, 36, 4,
         Switch(0, <<ip_socket_address_at(4), Byte(4)>>))
sockets_tcp_method_tcp_socket_remote_address ==
    Call(<<Handle>>, <<It(1)>>, sockets_tcp_result_ip_socket_address_error_code, 36, 4,
         Switch(0, <<ip_socket_address_at(4), Byte(4)>>))
sockets_tcp_method_tcp_socket_set_listen_backlog_size ==
    Call(<<Handle, Scalar(8)>>, <<It(1), It(2)>>, sockets_tcp_result_void_error_code, 2, 1,
         Switch(0, <<None, Byte(1)>>))
sockets_tcp_method_tcp_socket_keep_alive_enabled ==
    Call(<<Handle>>, <<It(1)>>, sockets_tcp_result_bool_error_code, 2, 1,
         Switch(0, <<Byte(1), Byte(1)>>))
sockets_tcp_method_tcp_socket_set_keep_alive_enabled ==
    Call(<<Handle, Bool>>, <<It(1), It(2)>>, sockets_tcp_result_void_error_code, 2, 1,
         Switch(0, <<None, Byte(1)>>))
sockets_tcp_method_tcp_socket_keep_alive_idle_time ==
    Call(<<Handle>>, <<It(1)>>, sockets_tcp_result_duration_error_code, 16, 8,
         Switch(0, <<Long(8), Byte(8)>>))
sockets_tcp_method_tcp_socket_set_keep_alive_idle_time ==
    Call(<<Handle, Scalar(8)>>, <<It(1), It(2)>>, sockets_tcp_result_void_error_code, 2, 1,
         Switch(0, <<None, Byte(1)>>))
sockets_tcp_method_tcp_socket_keep_alive_interval ==
    Call(<<Handle>>, <<It(1)>>, sockets_tcp_result_duration_error_code, 16, 8,
         Switch(0, <<Long(8), Byte(8)>>))
sockets_tcp_method_tcp_socket_set_keep_alive_interval ==
    Call(<<Handle, Scalar(8)>>, <<It(1), It(2)>>, sockets_tcp_result_void_error_code, 2, 1,
         Switch(0, <<None, Byte(1)>>))
sockets_tcp_method_tcp_socket_keep_alive_count ==
    Call(<<Handle>>, <<It(1)>>, sockets_tcp_result_u32_error_code, 8, 4,
         Switch(0, <<Word(4), Byte(4)>>))
sockets_tcp_method_tcp_socket_set_keep_alive_count ==
    Call(<<Handle, Scalar(4)>>, <<It(1), It(2)>>, sockets_tcp_result_void_error_code, 2, 1,
         Switch(0, <<None, Byte(1)>>))
sockets_tcp_method_tcp_socket_hop_limit ==
    Call(<<Handle>>, <<It(1)>>, sockets_tcp_result_u8_error_code, 2, 1,
         Switch(0, <<Byte(1), Byte(1)>>))
sockets_tcp_method_tcp_socket_set_hop_limit ==
    Call(<<Handle, Scalar(1)>>, <<It(1), It(2)>>, sockets_tcp_result_void_error_code, 2, 1,
         Switch(0, <<None, Byte(1)>>))
sockets_tcp_method_tcp_socket_receive_buffer_size ==
    Call(<<Handle>>, <<It(1)>>, sockets_tcp_result_u64_error_code, 16, 8,
         Switch(0, <<Long(8), Byte(8)>>))
sockets_tcp_method_tcp_socket_set_receive_buffer_size ==
    Call(<<Handle, Scalar(8)>>, <<It(1), It(2)>>, sockets_tcp_result_void_error_code, 2, 1,
         Switch(0, <<None, Byte(1)>>))
sockets_tcp_method_tcp_socket_send_buffer_size ==
    Call(<<Handle>>, <<It(1)>>, sockets_tcp_result_u64_error_code, 16, 8,
         Switch(0, <<Long(8), Byte(8)>>))
sockets_tcp_method_tcp_socket_set_send_buffer_size ==
    Call(<<Handle, Scalar(8)>>, <<It(1), It(2)>>, sockets_tcp_result_void_error_code, 2, 1,
         Switch(0, <<None, Byte(1)>>))
sockets_tcp_method_tcp_socket_shutdown ==
    Call(<<Handle, sockets_tcp_shutdown_type>>, <<It(1), It(2)>>,
         sockets_tcp_result_void_error_code, 2, 1, Switch(0, <<None, Byte(1)>>))
sockets_tcp_create_socket_create_tcp_socket ==
    Call(<<sockets_network_ip_address_family>>, <<It(1)>>,
         sockets_tcp_create_socket_result_own_tcp_socket_error_code, 8, 4,
         Switch(0, <<Word(4), Byte(4)>>))
sockets_ip_name_lookup_method_resolve_address_stream_resolve_next_address ==
    Call(<<Handle>>, <<It(1)>>,
         sockets_ip_name_lookup_result_option_ip_address_error_code, 22, 2,
         Switch(0, <<Switch(2, <<None, Switch(4, <<Struct(<<Byte(6), Byte(7), Byte(8),
           Byte(9)>>), Struct(<<Half(6), Half(8), Half(10), Half(12), Half(14), Half(16),
           Half(18), Half(20)>>)>>)>>), Byte(2)>>))
sockets_ip_name_lookup_resolve_addresses ==
    Call(<<Handle, String>>, <<It(1), Ptr(2), Count(2)>>,
         sockets_ip_name_lookup_result_own_resolve_address_stream_error_code, 8, 4,
         Switch(0, <<Word(4), Byte(4)>>))
random_random_get_random_bytes == Call(<<Scalar(8)>>, <<It(1)>>, list_u8, 8, 4, Span(0))
random_insecure_get_insecure_random_bytes ==
    Call(<<Scalar(8)>>, <<It(1)>>, list_u8, 8, 4, Span(0))
random_insecure_seed_insecure_seed ==
    Call(<<>>, <<>>, tuple2_u64_u64, 16, 8, Struct(<<Long(0), Long(8)>>))
http_types_static_fields_from_list ==
    Call(<<list_tuple2_field_name_field_value>>, <<Ptr(1), Count(1)>>,
         http_types_result_own_fields_header_error, 8, 4,
         Switch(0, <<Word(4), header_error_at(4)>>))
http_types_method_fields_get ==
    Call(<<Handle, String>>, <<It(1), Ptr(2), Count(2)>>, list_field_value, 8, 4, Span(0))
http_types_method_fields_set ==
    Call(<<Handle, String, list_field_value>>, <<It(1), Ptr(2), Count(2), Ptr(3), Count(3)>>,
         http_types_result_void_header_error, 2, 1, Switch(0, <<None, header_error_at(1)>>))
http_types_method_fields_delete ==
    Call(<<Handle, String>>, <<It(1), Ptr(2), Count(2)>>,
         http_types_result_void_header_error, 2, 1, Switch(0, <<None, header_error_at(1)>>))
http_types_method_fields_append ==
    Call(<<Handle, String, http_types_field_value>>, <<It(1), Ptr(2), Count(2), Ptr(3),
           Count(3)>>,
         http_types_result_void_header_error, 2, 1, Switch(0, <<None, header_error_at(1)>>))
http_types_method_fields_entries ==
    Call(<<Handle>>, <<It(1)>>, list_tuple2_field_name_field_value, 8, 4, Span(0))
http_types_method_incoming_request_method ==
    Call(<<Handle>>, <<It(1)>>, http_types_method, 12, 4, method_at(0))
http_types_method_incoming_request_path_with_query ==
    Call(<<Handle>>, <<It(1)>>, option_string, 12, 4, Switch(0, <<None, Span(4)>>))
http_types_method_incoming_request_scheme ==
    Call(<<Handle>>, <<It(1)>>, http_types_option_scheme, 16, 4,
         Switch(0, <<None, Switch(4, <<None, None, Span(8)>>)>>))
http_types_method_incoming_request_authority ==
    Call(<<Handle>>, <<It(1)>>, option_string, 12, 4, Switch(0, <<None, Span(4)>>))
http_types_method_incoming_request_consume ==
    Call(<<Handle>>, <<It(1)>>, http_types_result_own_incoming_body_void, 8, 4,
         stream_error_at(0))
http_types_method_outgoing_request_body ==
    Call(<<Handle>>, <<It(1)>>, http_types_result_own_outgoing_body_void, 8, 4,
         stream_error_at(0))
http_types_method_outgoing_request_method ==
    Call(<<Handle>>, <<It(1)>>, http_types_method, 12, 4, method_at(0))
http_types_method_outgoing_request_path_with_query ==
    Call(<<Handle>>, <<It(1)>>, option_string, 12, 4, Switch(0, <<None, Span(4)>>))
http_types_method_outgoing_request_scheme ==
    Call(<<Handle>>, <<It(1)>>, http_types_option_scheme, 16, 4,
         Switch(0, <<None, Switch(4, <<None, None, Span(8)>>)>>))
http_types_method_outgoing_request_authority ==
    Call(<<Handle>>, <<It(1)>>, option_string, 12, 4, Switch(0, <<None, Span(4)>>))
http_types_method_request_options_connect_timeout ==
    Call(<<Handle>>, <<It(1)>>, option_duration, 16, 8, Switch(0, <<None, Long(8)>>))
http_types_method_request_options_first_byte_timeout ==
    Call(<<Handle>>, <<It(1)>>, option_duration, 16, 8, Switch(0, <<None, Long(8)>>))
http_types_method_request_options_between_bytes_timeout ==
    Call(<<Handle>>, <<It(1)>>, option_duration, 16, 8, Switch(0, <<None, Long(8)>>))
http_types_method_incoming_response_consume ==
    Call(<<Handle>>, <<It(1)>>, http_types_result_own_incoming_body_void, 8, 4,
         stream_error_at(0))
http_types_method_incoming_body_stream ==
    Call(<<Handle>>, <<It(1)>>, http_types_result_own_input_stream_void, 8, 4, stream_error_at(0))
http_types_method_future_trailers_get ==
    Call(<<Handle>>, <<It(1)>>,
         http_types_option_result_result_option_own_trailers_error_code_void, 56, 8,
         Switch(0, <<None, Switch(8, <<Switch(16, <<Switch(24, <<None, Word(28)>>),
           http_error_code_at(24)>>), None>>)>>))
http_types_method_outgoing_response_body ==
    Call(<<Handle>>, <<It(1)>>, http_types_result_own_outgoing_body_void, 8, 4,
         stream_error_at(0))
http_types_method_outgoing_body_write ==
    Call(<<Handle>>, <<It(1)>>, http_types_result_own_output_stream_void, 8, 4,
         stream_error_at(0))
http_types_static_outgoing_body_finish ==
    Call(<<Handle, http_types_option_own_trailers>>, <<It(1), Optional(2)>>,
         http_types_result_void_error_code, 40, 8, Switch(0, <<None, http_error_code_at(8)>>))
http_types_method_future_incoming_response_get ==
    Call(<<Handle>>, <<It(1)>>,
         http_types_option_result_result_own_incoming_response_error_code_void, 56, 8,
         Switch(0, <<None, Switch(8, <<Switch(16, <<Word(24), http_error_code_at(24)>>),
           None>>)>>))
http_types_http_error_code ==
    Call(<<Handle>>, <<It(1)>>, http_types_option_error_code, 40, 8,
         Switch(0, <<None, http_error_code_at(8)>>))
http_outgoing_handler_handle ==
    Call(<<Handle, http_outgoing_handler_option_own_request_options>>, <<It(1), Optional(2)>>,
         http_outgoing_handler_result_own_future_incoming_response_error_code, 40, 8,
         Switch(0, <<Word(8), http_error_code_at(8)>>))

wasi_cli ==
    [cli_environment_get_environment |-> cli_environment_get_environment,
     cli_environment_get_arguments |-> cli_environment_get_arguments,
     cli_environment_initial_cwd |-> cli_environment_initial_cwd,
     io_error_method_error_to_debug_string |-> io_error_method_error_to_debug_string,
     io_poll_poll |-> io_poll_poll,
     io_streams_method_input_stream_read |-> io_streams_method_input_stream_read,
     io_streams_method_input_stream_blocking_read |-> io_streams_method_input_stream_blocking_read,
     io_streams_method_input_stream_skip |-> io_streams_method_input_stream_skip,
     io_streams_method_input_stream_blocking_skip |-> io_streams_method_input_stream_blocking_skip,
     io_streams_method_output_stream_check_write |-> io_streams_method_output_stream_check_write,
     io_streams_method_output_stream_write |-> io_streams_method_output_stream_write,
     io_streams_method_output_stream_blocking_write_and_flush |->
         io_streams_method_output_stream_blocking_write_and_flush,
     io_streams_method_output_stream_flush |-> io_streams_method_output_stream_flush,
     io_streams_method_output_stream_blocking_flush |->
         io_streams_method_output_stream_blocking_flush,
     io_streams_method_output_stream_write_zeroes |-> io_streams_method_output_stream_write_zeroes,
     io_streams_method_output_stream_blocking_write_zeroes_and_flush |->
         io_streams_method_output_stream_blocking_write_zeroes_and_flush,
     io_streams_method_output_stream_splice |-> io_streams_method_output_stream_splice,
     io_streams_method_output_stream_blocking_splice |->
         io_streams_method_output_stream_blocking_splice,
     cli_terminal_stdin_get_terminal_stdin |-> cli_terminal_stdin_get_terminal_stdin,
     cli_terminal_stdout_get_terminal_stdout |-> cli_terminal_stdout_get_terminal_stdout,
     cli_terminal_stderr_get_terminal_stderr |-> cli_terminal_stderr_get_terminal_stderr,
     clocks_wall_clock_now |-> clocks_wall_clock_now,
     clocks_wall_clock_resolution |-> clocks_wall_clock_resolution,
     random_random_get_random_bytes |-> random_random_get_random_bytes,
     random_insecure_get_insecure_random_bytes |-> random_insecure_get_insecure_random_bytes,
     random_insecure_seed_insecure_seed |-> random_insecure_seed_insecure_seed]
wasi_filesystem ==
    [filesystem_types_method_descriptor_read_via_stream |->
     filesystem_types_method_descriptor_read_via_stream,
     filesystem_types_method_descriptor_write_via_stream |->
         filesystem_types_method_descriptor_write_via_stream,
     filesystem_types_method_descriptor_append_via_stream |->
         filesystem_types_method_descriptor_append_via_stream,
     filesystem_types_method_descriptor_advise |-> filesystem_types_method_descriptor_advise,
     filesystem_types_method_descriptor_sync_data |-> filesystem_types_method_descriptor_sync_data,
     filesystem_types_method_descriptor_get_flags |-> filesystem_types_method_descriptor_get_flags,
     filesystem_types_method_descriptor_get_type |-> filesystem_types_method_descriptor_get_type,
     filesystem_types_method_descriptor_set_size |-> filesystem_types_method_descriptor_set_size,
     filesystem_types_method_descriptor_set_times |-> filesystem_types_method_descriptor_set_times,
     filesystem_types_method_descriptor_read |-> filesystem_types_method_descriptor_read,
     filesystem_types_method_descriptor_write |-> filesystem_types_method_descriptor_write,
     filesystem_types_method_descriptor_read_directory |->
         filesystem_types_method_descriptor_read_directory,
     filesystem_types_method_descriptor_sync |-> filesystem_types_method_descriptor_sync,
     filesystem_types_method_descriptor_create_directory_at |->
         filesystem_types_method_descriptor_create_directory_at,
     filesystem_types_method_descriptor_stat |-> filesystem_types_method_descriptor_stat,
     filesystem_types_method_descriptor_stat_at |-> filesystem_types_method_descriptor_stat_at,
     filesystem_types_method_descriptor_set_times_at |->
         filesystem_types_method_descriptor_set_times_at,
     filesystem_types_method_descriptor_link_at |-> filesystem_types_method_descriptor_link_at,
     filesystem_types_method_descriptor_open_at |-> filesystem_types_method_descriptor_open_at,
     filesystem_types_method_descriptor_readlink_at |->
         filesystem_types_method_descriptor_readlink_at,
     filesystem_types_method_descriptor_remove_directory_at |->
         filesystem_types_method_descriptor_remove_directory_at,
     filesystem_types_method_descriptor_rename_at |-> filesystem_types_method_descriptor_rename_at,
     filesystem_types_method_descriptor_symlink_at |->
         filesystem_types_method_descriptor_symlink_at,
     filesystem_types_method_descriptor_unlink_file_at |->
         filesystem_types_method_descriptor_unlink_file_at,
     filesystem_types_method_descriptor_metadata_hash |->
         filesystem_types_method_descriptor_metadata_hash,
     filesystem_types_method_descriptor_metadata_hash_at |->
         filesystem_types_method_descriptor_metadata_hash_at,
     filesystem_types_method_directory_entry_stream_read_directory_entry |->
         filesystem_types_method_directory_entry_stream_read_directory_entry,
     filesystem_types_filesystem_error_code |-> filesystem_types_filesystem_error_code,
     filesystem_preopens_get_directories |-> filesystem_preopens_get_directories]
wasi_sockets ==
    [sockets_udp_method_udp_socket_start_bind |-> sockets_udp_method_udp_socket_start_bind,
     sockets_udp_method_udp_socket_finish_bind |-> sockets_udp_method_udp_socket_finish_bind,
     sockets_udp_method_udp_socket_stream |-> sockets_udp_method_udp_socket_stream,
     sockets_udp_method_udp_socket_local_address |-> sockets_udp_method_udp_socket_local_address,
     sockets_udp_method_udp_socket_remote_address |-> sockets_udp_method_udp_socket_remote_address,
     sockets_udp_method_udp_socket_unicast_hop_limit |->
         sockets_udp_method_udp_socket_unicast_hop_limit,
     sockets_udp_method_udp_socket_set_unicast_hop_limit |->
         sockets_udp_method_udp_socket_set_unicast_hop_limit,
     sockets_udp_method_udp_socket_receive_buffer_size |->
         sockets_udp_method_udp_socket_receive_buffer_size,
     sockets_udp_method_udp_socket_set_receive_buffer_size |->
         sockets_udp_method_udp_socket_set_receive_buffer_size,
     sockets_udp_method_udp_socket_send_buffer_size |->
         sockets_udp_method_udp_socket_send_buffer_size,
     sockets_udp_method_udp_socket_set_send_buffer_size |->
         sockets_udp_method_udp_socket_set_send_buffer_size,
     sockets_udp_method_incoming_datagram_stream_receive |->
         sockets_udp_method_incoming_datagram_stream_receive,
     sockets_udp_method_outgoing_datagram_stream_check_send |->
         sockets_udp_method_outgoing_datagram_stream_check_send,
     sockets_udp_method_outgoing_datagram_stream_send |->
         sockets_udp_method_outgoing_datagram_stream_send,
     sockets_udp_create_socket_create_udp_socket |-> sockets_udp_create_socket_create_udp_socket,
     sockets_tcp_method_tcp_socket_start_bind |-> sockets_tcp_method_tcp_socket_start_bind,
     sockets_tcp_method_tcp_socket_finish_bind |-> sockets_tcp_method_tcp_socket_finish_bind,
     sockets_tcp_method_tcp_socket_start_connect |-> sockets_tcp_method_tcp_socket_start_connect,
     sockets_tcp_method_tcp_socket_finish_connect |-> sockets_tcp_method_tcp_socket_finish_connect,
     sockets_tcp_method_tcp_socket_start_listen |-> sockets_tcp_method_tcp_socket_start_listen,
     sockets_tcp_method_tcp_socket_finish_listen |-> sockets_tcp_method_tcp_socket_finish_listen,
     sockets_tcp_method_tcp_socket_accept |-> sockets_tcp_method_tcp_socket_accept,
     sockets_tcp_method_tcp_socket_local_address |-> sockets_tcp_method_tcp_socket_local_address,
     sockets_tcp_method_tcp_socket_remote_address |-> sockets_tcp_method_tcp_socket_remote_address,
     sockets_tcp_method_tcp_socket_set_listen_backlog_size |->
         sockets_tcp_method_tcp_socket_set_listen_backlog_size,
     sockets_tcp_method_tcp_socket_keep_alive_enabled |->
         sockets_tcp_method_tcp_socket_keep_alive_enabled,
     sockets_tcp_method_tcp_socket_set_keep_alive_enabled |->
         sockets_tcp_method_tcp_socket_set_keep_alive_enabled,
     sockets_tcp_method_tcp_socket_keep_alive_idle_time |->
         sockets_tcp_method_tcp_socket_keep_alive_idle_time,
     sockets_tcp_method_tcp_socket_set_keep_alive_idle_time |->
         sockets_tcp_method_tcp_socket_set_keep_alive_idle_time,
     sockets_tcp_method_tcp_socket_keep_alive_interval |->
         sockets_tcp_method_tcp_socket_keep_alive_interval,
     sockets_tcp_method_tcp_socket_set_keep_alive_interval |->
         sockets_tcp_method_tcp_socket_set_keep_alive_interval,
     sockets_tcp_method_tcp_socket_keep_alive_count |->
         sockets_tcp_method_tcp_socket_keep_alive_count,
     sockets_tcp_method_tcp_socket_set_keep_alive_count |->
         sockets_tcp_method_tcp_socket_set_keep_alive_count,
     sockets_tcp_method_tcp_socket_hop_limit |-> sockets_tcp_method_tcp_socket_hop_limit,
     sockets_tcp_method_tcp_socket_set_hop_limit |-> sockets_tcp_method_tcp_socket_set_hop_limit,
     sockets_tcp_method_tcp_socket_receive_buffer_size |->
         sockets_tcp_method_tcp_socket_receive_buffer_size,
     sockets_tcp_method_tcp_socket_set_receive_buffer_size |->
         sockets_tcp_method_tcp_socket_set_receive_buffer_size,
     sockets_tcp_method_tcp_socket_send_buffer_size |->
         sockets_tcp_method_tcp_socket_send_buffer_size,
     sockets_tcp_method_tcp_socket_set_send_buffer_size |->
         sockets_tcp_method_tcp_socket_set_send_buffer_size,
     sockets_tcp_method_tcp_socket_shutdown |-> sockets_tcp_method_tcp_socket_shutdown,
     sockets_tcp_create_socket_create_tcp_socket |-> sockets_tcp_create_socket_create_tcp_socket,
     sockets_ip_name_lookup_method_resolve_address_stream_resolve_next_address |->
         sockets_ip_name_lookup_method_resolve_address_stream_resolve_next_address,
     sockets_ip_name_lookup_resolve_addresses |-> sockets_ip_name_lookup_resolve_addresses]
wasi_http ==
    [http_types_static_fields_from_list |-> http_types_static_fields_from_list,
     http_types_method_fields_get |-> http_types_method_fields_get,
     http_types_method_fields_set |-> http_types_method_fields_set,
     http_types_method_fields_delete |-> http_types_method_fields_delete,
     http_types_method_fields_append |-> http_types_method_fields_append,
     http_types_method_fields_entries |-> http_types_method_fields_entries,
     http_types_method_incoming_request_method |-> http_types_method_incoming_request_method,
     http_types_method_incoming_request_path_with_query |->
         http_types_method_incoming_request_path_with_query,
     http_types_method_incoming_request_scheme |-> http_types_method_incoming_request_scheme,
     http_types_method_incoming_request_authority |-> http_types_method_incoming_request_authority,
     http_types_method_incoming_request_consume |-> http_types_method_incoming_request_consume,
     http_types_method_outgoing_request_body |-> http_types_method_outgoing_request_body,
     http_types_method_outgoing_request_method |-> http_types_method_outgoing_request_method,
     http_types_method_outgoing_request_path_with_query |->
         http_types_method_outgoing_request_path_with_query,
     http_types_method_outgoing_request_scheme |-> http_types_method_outgoing_request_scheme,
     http_types_method_outgoing_request_authority |-> http_types_method_outgoing_request_authority,
     http_types_method_request_options_connect_timeout |->
         http_types_method_request_options_connect_timeout,
     http_types_method_request_options_first_byte_timeout |->
         http_types_method_request_options_first_byte_timeout,
     http_types_method_request_options_between_bytes_timeout |->
         http_types_method_request_options_between_bytes_timeout,
     http_types_method_incoming_response_consume |-> http_types_method_incoming_response_consume,
     http_types_method_incoming_body_stream |-> http_types_method_incoming_body_stream,
     http_types_method_future_trailers_get |-> http_types_method_future_trailers_get,
     http_types_method_outgoing_response_body |-> http_types_method_outgoing_response_body,
     http_types_method_outgoing_body_write |-> http_types_method_outgoing_body_write,
     http_types_static_outgoing_body_finish |-> http_types_static_outgoing_body_finish,
     http_types_method_future_incoming_response_get |->
         http_types_method_future_incoming_response_get,
     http_types_http_error_code |-> http_types_http_error_code,
     http_outgoing_handler_handle |-> http_outgoing_handler_handle]
wasi == Both(Both(wasi_cli, wasi_filesystem), Both(wasi_sockets, wasi_http))
=============================================================================
