------------------------------ MODULE MCRobot ------------------------------
(* Robot with the commands of the Android application. *)
EXTENDS Robot

MCMoves == {"F", "B", "R", "L", "0", "other"}

(* "00", "05" and "10" of the application, and bytes that are not digits. *)
MCSpeeds == {<<48, 48>>, <<48, 53>>, <<49, 48>>, <<32, 65>>}
=============================================================================
