------------------------------ MODULE MCDelivery ------------------------------
(***************************************************************************)
(* The owner's test message in the self-chat, whose replies come back as    *)
(* echoes, one photo that may be emitted twice, one file whose declared     *)
(* size is a lie, one of a type that is not allowed, a text under too many  *)
(* wrappers and a video.                                                    *)
(***************************************************************************)
EXTENDS Delivery, TLC

Hello == [id |-> 1, notify |-> TRUE, fromMe |-> FALSE, self |-> FALSE, wraps |-> 0,
          body |-> "text", caption |-> FALSE, declared |-> "small", real |-> "small",
          mime |-> TRUE]
Photo == [Hello EXCEPT !.id = 2, !.body = "image", !.wraps = 1]
Liar == [Photo EXCEPT !.id = 3, !.body = "document", !.real = "big"]
Sticker == [Photo EXCEPT !.id = 4, !.mime = FALSE]
Nested == [Hello EXCEPT !.id = 5, !.wraps = 6]
Clip == [Hello EXCEPT !.id = 6, !.body = "video"]
Selftest == [Hello EXCEPT !.id = 7, !.fromMe = TRUE, !.self = TRUE]

Messages == {Selftest, Photo, Liar, Sticker, Nested, Clip}
=============================================================================
