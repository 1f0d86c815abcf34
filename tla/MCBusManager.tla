---------------------------- MODULE MCBusManager ----------------------------
EXTENDS BusManager

On(u, m) == [user |-> u, mode |-> m]

\* The calls each task of the firmware makes: urihandlers_wss.c:111-301, 573,
\* usb_vendor_lin_comm.c:133-141, usb_vendor_btl_ppm.c:66, 158.
MCClaimsOf == [
    httpd   |-> {On("WIFI", "APPLICATION"), On("WIFI", "BOOTLOADER")},
    tinyusb |-> {On("USB_VENDOR", "APPLICATION")},
    bulk    |-> {On("USB_VENDOR", "BOOTLOADER")}]

MCReleasesOf == [
    httpd   |-> {On("WIFI", "APPLICATION"), On("WIFI", "BOOTLOADER")},
    tinyusb |-> {On("USB_VENDOR", "APPLICATION"), On("USB_VENDOR", "BOOTLOADER")},
    bulk    |-> {}]

\* Every request of the interface, from two interchangeable callers.
AnyClaimsOf == [t \in Task |-> Request]
AnyReleasesOf == [t \in Task |-> Request]
=============================================================================
