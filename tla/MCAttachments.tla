---------------------------- MODULE MCAttachments ----------------------------
(***************************************************************************)
(* photo and chart are allowed images of different length, photo carrying  *)
(* EXIF data; script has the length of photo and is no image.              *)
(***************************************************************************)
EXTENDS Attachments, TLC

CONSTANTS photo, chart, script

MCSizeOf == photo :> 1 @@ chart :> 2 @@ script :> 1

=============================================================================
