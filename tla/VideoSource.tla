---------------------------- MODULE VideoSource -----------------------------
(***************************************************************************)
(* The properties of VideoSource::Imaging and its nested classes, whose    *)
(* methods throw "not implemented", and those that DefaultVideoSource      *)
(* hands on to the source of the stage.                                    *)
(***************************************************************************)
AntiFlicker == {"Mode", "Frequency"}
Backlight == {"Mode", "Level"}
Focus == {"Mode", "DefaultSpeed", "NearLimit", "FarLimit"}
Exposure ==
    {"Mode", "Priority", "MinExposureTime", "MaxExposureTime", "MinGain", "MaxGain",
     "MinIris", "MaxIris", "Compensation", "ExposureTime", "Gain", "Iris"}
WhiteBalance == {"Mode", "CbGain", "CrGain", "RGain", "GGain", "BGain"}
WideDynamicRange == {"Mode", "Level"}
LDC == {"Mode", "Ratio"}
Gamma == {"CurveData"}
NoiseReduction == {"Mode", "Level", "ParamTable"}
IrCutFilter == {"Mode", "Threshold", "Hysteresis", "Brightness"}
Imaging ==
    {"Mirror", "Flip", "Brightness", "Contrast", "Chroma", "Saturation", "Sharpness"}

Properties ==
    ({"AntiFlicker"} \X AntiFlicker) \cup ({"Backlight"} \X Backlight)
    \cup ({"Focus"} \X Focus) \cup ({"Exposure"} \X Exposure)
    \cup ({"WhiteBalance"} \X WhiteBalance)
    \cup ({"WideDynamicRange"} \X WideDynamicRange) \cup ({"LDC"} \X LDC)
    \cup ({"Gamma"} \X Gamma) \cup ({"NoiseReduction"} \X NoiseReduction)
    \cup ({"IrCutFilter"} \X IrCutFilter) \cup ({"Imaging"} \X Imaging)

-----------------------------------------------------------------------------
(* What a stage hands on to its source unless its own class overrides it;  *)
(* without a source the methods throw.                                     *)

DefaultAntiFlicker == {"AntiFlicker"} \X {"Mode", "Frequency"}

DefaultBacklight == {"Backlight"} \X {"Mode", "Level"}

DefaultFocus == {"Focus"} \X {"Mode", "DefaultSpeed", "NearLimit", "FarLimit"}

DefaultExposureModes == {"Exposure"} \X {"Mode", "Priority"}

DefaultExposureRanges ==
    {"Exposure"} \X {"MinExposureTime", "MaxExposureTime", "MinGain", "MaxGain"}

DefaultExposureManual ==
    {"Exposure"} \X {"MinIris", "MaxIris", "Compensation", "ExposureTime", "Gain", "Iris"}

DefaultWhiteBalance ==
    {"WhiteBalance"} \X {"Mode", "CbGain", "CrGain", "RGain", "GGain", "BGain"}

DefaultWideDynamicRange == {"WideDynamicRange"} \X {"Mode", "Level"}

DefaultLDC == {"LDC"} \X {"Mode", "Ratio"}

DefaultGamma == {"Gamma"} \X {"CurveData"}

DefaultNoiseReduction == {"NoiseReduction"} \X {"Mode", "Level", "ParamTable"}

DefaultIrCutFilter ==
    {"IrCutFilter"} \X {"Mode", "Threshold", "Hysteresis", "Brightness"}

DefaultImaging ==
    {"Imaging"} \X {"Mirror", "Flip", "Brightness", "Contrast", "Chroma", "Saturation",
                    "Sharpness"}

\* The accessors of the nested classes, which are handed on as well.
DefaultClasses ==
    {"AntiFlicker", "Backlight", "Focus", "Exposure", "WhiteBalance",
     "WideDynamicRange", "LDC", "Gamma", "NoiseReduction", "IrCutFilter"}

DefaultProperties ==
    LET nested ==
            DefaultAntiFlicker \cup DefaultBacklight \cup DefaultFocus
            \cup DefaultExposureModes \cup DefaultExposureRanges
            \cup DefaultExposureManual \cup DefaultWhiteBalance
            \cup DefaultWideDynamicRange \cup DefaultLDC \cup DefaultGamma
            \cup DefaultNoiseReduction \cup DefaultIrCutFilter
    IN  DefaultImaging \cup {n \in nested : n[1] \in DefaultClasses}
=============================================================================
