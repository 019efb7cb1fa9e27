-------------------------------- MODULE Orm --------------------------------
(***************************************************************************)
(* What a SQLAlchemy session of this application writes when it commits a  *)
(* row it loaded earlier.  app/db.py builds every session with             *)
(* sessionmaker(autoflush=False): a handler loads a row, assigns to its    *)
(* attributes and commits.  The UPDATE that the commit issues names only   *)
(* the columns whose new value differs from the value that was LOADED, so  *)
(* another transaction's write to a column the handler left alone survives *)
(* and its write to a column the handler changed is overwritten.           *)
(***************************************************************************)
(* Mutant: every column is written. *)
FlushAll(row, loaded, new) == new

Flush(row, loaded, new) ==
  [c \in DOMAIN row |-> IF new[c] # loaded[c] THEN new[c] ELSE row[c]]
=============================================================================
