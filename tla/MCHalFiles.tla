------------------------------ MODULE MCHalFiles ------------------------------
(* The JTAG UART, a display that may refuse to open, and a file system. *)
EXTENDS HalFiles
Uart == [name |-> <<"dev", "uart">>, ops |-> {"read", "write", "close", "ioctl"}]
Lcd == [name |-> <<"dev", "lcd">>, ops |-> {"open", "write"}]
Disk == [name |-> <<"mnt">>, ops |-> {"open", "close", "read", "write", "lseek", "fstat", "ioctl"}]
MCDevices == {Uart, Lcd}
MCFileSystems == {Disk}
MCNames == {Uart.name, Lcd.name, <<"mnt", "rom">>, <<"mntx">>}
MCStdout == Lcd.name
MCStdin == Uart.name
=============================================================================
