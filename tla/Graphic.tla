--------------------------------- MODULE Graphic ---------------------------------
(***************************************************************************)
(* The plugin's graphics entity (src/gallery/graphic.cpp): it lives from   *)
(* one device event of the host to the next, keeps the host's device and   *)
(* textures, and makes textures for the host.  A texture belongs to the    *)
(* device it was made for; devices are numbered, 0 is none.                *)
(***************************************************************************)
EXTENDS Naturals

CONSTANT MaxDevices   \* bound: devices the host initializes

GraphicAssumption == MaxDevices \in Nat

VARIABLES
    registered, \* the device event callback is registered
    device,     \* the host's device
    devices,    \* devices initialized so far
    entity,     \* graphic_entity.has_value()
    device_,    \* the entity's device
    alphas,     \* alphas_, alphas_temp_: the device of the stored textures
    alphasTemp,
    handed      \* the device of the texture that was made for the host last

content == <<device_, alphas, alphasTemp>>
vars == <<registered, device, devices, entity, content, handed>>

Fresh == device_' = 0 /\ alphas' = 0 /\ alphasTemp' = 0

Init ==
    /\ registered = FALSE /\ device = 0 /\ devices = 0
    /\ entity = FALSE
    /\ device_ = 0 /\ alphas = 0 /\ alphasTemp = 0
    /\ handed = 0

(* A plausible slip: an entity that exists is only cleared.                *)
MutantEmplace ==
    /\ device_' = devices'
    /\ alphas' = 0
    /\ IF entity THEN UNCHANGED alphasTemp ELSE alphasTemp' = 0

(* graphic_entity.emplace(): all is new; process_event(Initialize) clears  *)
(* it and takes the host's device.                                         *)
Emplace == device_' = devices' /\ alphas' = 0 /\ alphasTemp' = 0

(* The device event Initialize, from the host or from UnityPluginLoad.     *)
(* The host drops the textures of a device that it had before.             *)
DeviceInitialize ==
    /\ devices < MaxDevices
    /\ devices' = devices + 1 /\ device' = devices + 1
    /\ entity' = TRUE
    /\ Emplace
    /\ handed' = 0

UnityPluginLoad ==
    /\ ~registered
    /\ registered' = TRUE
    /\ DeviceInitialize

OnInitialize ==
    /\ registered
    /\ DeviceInitialize
    /\ UNCHANGED registered

(* The device event Shutdown: the entity is cleared and destroyed.         *)
OnShutdown ==
    /\ registered /\ device # 0
    /\ device' = 0
    /\ entity' = FALSE
    /\ Fresh
    /\ handed' = 0
    /\ UNCHANGED <<registered, devices>>

UnityPluginUnload ==
    /\ registered
    /\ registered' = FALSE
    /\ UNCHANGED <<device, devices, entity, content, handed>>

(* The host's textures are kept as they are given.                         *)
StoreTextures == alphas' = device /\ UNCHANGED alphasTemp
StoreTempTextures == alphasTemp' = device /\ UNCHANGED alphas

(* _nativeGraphicSetTextures: textures the host made for its device.       *)
SetTextures ==
    /\ entity /\ device # 0
    /\ StoreTextures \/ StoreTempTextures
    /\ UNCHANGED <<registered, device, devices, entity, device_, handed>>

(* make_dynamic_texture: on the entity's device.                           *)
MakeDynamicTexture == device_

(* make_shader_resource, for a dynamic texture with a view of it.          *)
MakeResource == MakeDynamicTexture

(* _nativeGraphicCreateTextures: a texture for the host.                   *)
CreateTextures ==
    /\ entity /\ device # 0
    /\ handed' = MakeResource
    /\ UNCHANGED <<registered, device, devices, entity, content>>

Next == \/ UnityPluginLoad \/ OnInitialize \/ OnShutdown \/ UnityPluginUnload
        \/ SetTextures \/ CreateTextures

Spec == Init /\ [][Next]_vars

---------------------------------------------------------------------------------
(* Properties.                                                             *)

(* Nothing the entity keeps, or makes for the host, belongs to a device    *)
(* that is gone: clear() (graphic.cpp:305-309) leaves the temporary        *)
(* textures alone, so this is up to the entity being made anew.            *)
DeviceCurrent == {device_, alphas, alphasTemp, handed} \subseteq {0, device}
==================================================================================
