--------------------------- MODULE MCUsbhControl ---------------------------
(* Requests for model checking the control-transfer engine alone.          *)
EXTENDS UsbhControl

Shape(dir, data) == [dir |-> dir, data |-> data]

(* Every shape the engine distinguishes.                                   *)
AllShapes == {Shape(dir, data) : dir \in {"D2H", "H2D"}, data \in BOOLEAN}

=============================================================================
