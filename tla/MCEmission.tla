----------------------------- MODULE MCEmission -----------------------------
(* Two registers and two spill slots; words of 3 bits with a 1-bit low byte. *)
EXTENDS Emission

MCOps == {"const_int", "const_ptr", "load_local", "store_local", "neg", "not", "nonzero",
          "+", "-", "*", "/", "%", "==", "!=", "<", "<=", ">", ">=",
          "call", "print", "jmp", "br", "ret"}
MCBooleanOps == {"&&", "||"}
=============================================================================
